---- MODULE Spec2Model ----
(***************************************************************************)
(* Verification model of the pronto WhatsApp worker and message pipeline.  *)
(*                                                                         *)
(* The processes of the repository are modelled, each with its own         *)
(* specification over the shared variable list:                           *)
(*   SpecWorker   - the session manager of the worker (worker/src/auth.ts):*)
(*                  getOrCreateSession, the connection.update handler,     *)
(*                  sendMessage, logoutSession, the messages.upsert        *)
(*                  handler and the pending-echo set with its TTL timers.  *)
(*   SpecPairing  - requestPairingCode over the session manager.           *)
(*   SpecKeys     - the credential store adapter useSupabaseAuthState.     *)
(*   SpecSend     - sendMessage on a connected session, with its timers.   *)
(*   SpecPipeline - the webhook and handleIncomingMessage of the web app   *)
(*                  with the leads and messages tables it writes.          *)
(*   SpecBatch    - the HistoryManager of the worker (worker/src/index.ts).*)
(*   SpecDrain    - the HistoryManager under weak fairness of its flush    *)
(*                  steps, with a failing insert and a bad timestamp.      *)
(*   SpecStream   - the status stream of the worker (worker/src/index.ts)  *)
(*                  over the session manager.                              *)
(*   SpecIngest   - live handling in the web app together with the        *)
(*                  history flush of the worker on the same tables.        *)
(*   SpecRestore  - initAllActiveSessions at process start.                *)
(* Every await of the source is a step boundary: the statements between    *)
(* two awaits run atomically (one JavaScript event-loop turn).            *)
(***************************************************************************)
EXTENDS Naturals, Integers, Sequences, FiniteSets, TLC

\* ------------------------------------------------------------------ bounds
MaxCalls == 2      \* control-surface requests accepted by the worker
MaxSocks == 2      \* sockets built by makeWASocket
MaxNetwork == 1    \* connection losses and messages.upsert events from the network
MaxPairings == 1   \* pairing-code requests accepted by the worker

\* ------------------------------------------------------- values and helpers
Tenants == {"T1", "T2"}
Phones == {"A"}
NoSock == 0
NoId == <<"none", 0>>

UserJid(p) == [user |-> p, server |-> "s.whatsapp.net"]
BareNumber(p) == [user |-> p, server |-> ""]
StatusJid == [user |-> "status", server |-> "broadcast"]

\* Baileys isJidBroadcast: the address ends with "@broadcast"
IsJidBroadcast(jid) == jid.server = "broadcast"

\* The content shapes of a WAMessage the code reads
Conversation(t) == [kind |-> "conversation", text |-> t]
ExtendedText(t) == [kind |-> "extendedText", text |-> t]
ImageCaption(t) == [kind |-> "imageCaption", text |-> t]

NoBody == [kind |-> "none", text |-> ""]

\* The shapes of messageTimestamp: a number, a Long object, or absent.
\* Time is counted in hours; Now is the time of the run.
Now == 100
TsNumber(v) == [shape |-> "number", v |-> v]
TsLong(v) == [shape |-> "long", v |-> v]
TsAbsent == [shape |-> "absent", v |-> 0]

NoJid == [user |-> "", server |-> ""]

WAMessage(id, fromMe, jid, body, name, ts, pn) ==
  [key |-> [id |-> id, fromMe |-> fromMe, remoteJid |-> jid],
   message |-> body, pushName |-> name, messageTimestamp |-> ts, senderPn |-> pn]

\* The events the chat network can deliver to a tenant's socket
EvHi == WAMessage(<<"wa", 1>>, FALSE, UserJid("A"), Conversation("Hi"), "Ann",
                  TsNumber(Now), NoJid)
EvOperator == WAMessage(<<"wa", 2>>, TRUE, UserJid("A"),
                        Conversation("I'll handle this"), "", TsNumber(Now), NoJid)
EvOld == WAMessage(<<"wa", 3>>, FALSE, UserJid("A"), ExtendedText("Hi"), "Ann",
                   TsNumber(Now - 48), UserJid("P"))
EvStatus == WAMessage(<<"wa", 4>>, FALSE, StatusJid, Conversation("Hi"), "",
                      TsNumber(Now), NoJid)
EvImage == WAMessage(<<"wa", 5>>, FALSE, UserJid("A"), ImageCaption("pic"), "Ann",
                     TsLong(Now), NoJid)
EvProtocol == WAMessage(<<"wa", 6>>, FALSE, UserJid("A"), NoBody, "", TsAbsent, NoJid)

NetworkEvents == {EvHi, EvOperator, EvOld, EvStatus, EvImage, EvProtocol}

\* The number new Date(ts * 1000) makes no valid time of (NaN, or a number
\* beyond the range of Date): toISOString throws a RangeError (index.ts:228)
NaN == -1

\* A replayed event whose timestamp is such a number
EvBadTime == WAMessage(<<"wa", 7>>, FALSE, UserJid("A"), Conversation("Hi"), "Ann",
                       TsNumber(NaN), NoJid)

VARIABLES
  sessions,                \* auth.ts:127  Map orgId -> WASocket
  sessionStates,           \* auth.ts:128  Map orgId -> {status, qr?}
  recentlySentMessageIds,  \* auth.ts:129  Set of delivery ids
  socks,                   \* every socket makeWASocket has built
  calls,                   \* getOrCreateSession invocations
  sends,                   \* sendMessage invocations
  logouts,                 \* logoutSession invocations
  ttlTimers,               \* pending setTimeout(.., 30000) of sendMessage
  dbStatus,                \* organizations.whatsapp_status
  authRows,                \* whatsapp_sessions rows per session_id exist
  webhookPosts,            \* POSTs the upsert handler made to the webhook
  queue,                   \* HistoryManager.queue
  echoDropped,             \* ids of own-device events dropped as echoes
  nNetwork,                \* events of the chat network delivered so far
  nRequests,               \* control-surface requests accepted so far
  pairings,                \* requestPairingCode invocations
  keyData,                 \* auth.ts:28  the adapter's in-memory key map `data`
  keyRows,                 \* whatsapp_sessions rows of the session, by key
  keyLast,                 \* per key, the value of the last set item processed
  keySets,                 \* keys.set invocations
  sseSent,                 \* index.ts:57-89  per tenant, the last status written to its SSE client
  restore,                 \* the initAllActiveSessions invocation of the process start
  leads,                   \* table leads, keyed (organization_id, phone)
  messages,                \* table messages, in insertion order
  handlers,                \* handleIncomingMessage invocations
  aiLog,                   \* processMessageWithAI invocations
  sendLog,                 \* sendMessage requests of the web app to the worker
  clock,                   \* Date.now() of the web app, in milliseconds
  nToggles,                \* dashboard toggle-ai requests so far
  processing,              \* HistoryManager.processing
  leadCache,               \* index.ts:152 leadCache
  batch,                   \* the batch a running flush took from the queue
  messagesToInsert,        \* rows a running flush has collected
  flushPc,                 \* where a running flush is suspended
  flushLog                 \* per flush that took a batch: its size and inserts

workerVars == <<sessions, sessionStates, recentlySentMessageIds, socks, calls,
                sends, logouts, ttlTimers, dbStatus, authRows, webhookPosts,
                echoDropped, nNetwork, nRequests, pairings, keyData, keyRows,
                keyLast, keySets, sseSent, restore>>

keyVars == <<keyData, keyRows, keyLast, keySets>>

pipeVars == <<handlers, aiLog, sendLog, clock, nToggles>>
tableVars == <<leads, messages>>
batchVars == <<processing, leadCache, batch, messagesToInsert, flushPc, flushLog>>

vars == <<workerVars, queue, pipeVars, tableVars, batchVars>>

\* ================================================ credential store adapter
MaxSets == 2       \* keys.set invocations of one adapter

KeyTypes == {"session", "pre-key"}
KeyIds == {"1", "2"}
KeyValues == {"v1", "v2"}
Null == "null"
Absent == "absent"

\* auth.ts:46, 59: the storage key of an entry
KeyOf(type, id) == type \o "-" \o id
KeyNames == {KeyOf(type, id) : type \in KeyTypes, id \in KeyIds}

\* One entry of dataToSet; an object lists its entries in insertion order and
\* holds a key once
SetItems == [type : KeyTypes, id : KeyIds, value : KeyValues \cup {Null}]
DataToSet ==
  {<<a>> : a \in SetItems}
    \cup {<<a, b>> : <<a, b>> \in
             {x \in SetItems \X SetItems :
                KeyOf(x[1].type, x[1].id) # KeyOf(x[2].type, x[2].id)}}

EmptyKeys ==
  /\ keyData = [k \in KeyNames |-> Absent]
  /\ keyRows = [k \in KeyNames |-> Absent]
  /\ keyLast = [k \in KeyNames |-> Absent]
  /\ keySets = <<>>

\* keys.get (auth.ts:43-52): the ids whose map entry is truthy
KeysGet(type, ids) ==
  [id \in {i \in ids : keyData[KeyOf(type, i)] \notin {Absent, Null}}
     |-> keyData[KeyOf(type, id)]]

\* The loop of keys.set from entry i until it suspends in the delete of a null
\* entry or runs out of entries (auth.ts:56-77): the state of the invocation
RECURSIVE SetLoop(_, _)
SetLoop(s, D) ==
  IF s.i > Len(s.items) THEN [inv |-> [s EXCEPT !.pc = "loopEnd"], data |-> D]
  ELSE LET e == s.items[s.i]
           k == KeyOf(e.type, e.id)
           D2 == [D EXCEPT ![k] = e.value]
       IN IF e.value # Null
          THEN SetLoop([s EXCEPT !.i = @ + 1,
                                 !.updates = Append(@, [key |-> k, value |-> e.value])],
                       D2)
          ELSE [inv |-> [s EXCEPT !.pc = "delete"], data |-> D2]

\* After the loop: the batched upsert, when there is anything to write
\* (auth.ts:79-82)
AfterLoop(s) ==
  IF s.pc # "loopEnd" THEN s
  ELSE IF Len(s.updates) > 0 THEN [s EXCEPT !.pc = "upsert"]
  ELSE [s EXCEPT !.pc = "done"]

\* The entries the loop passed between two suspensions
Processed(old, new) ==
  {j \in DOMAIN old.items :
     /\ j >= old.i
     /\ j < new.i \/ (j = new.i /\ new.pc = "delete")}

LastAfter(old, new) ==
  [k \in KeyNames |->
     IF \E j \in Processed(old, new) : KeyOf(old.items[j].type, old.items[j].id) = k
     THEN (CHOOSE e \in {old.items[j] : j \in Processed(old, new)} :
             KeyOf(e.type, e.id) = k).value
     ELSE keyLast[k]]

\* keys.set invoked, up to its first await (auth.ts:53-82)
KeysSet(d) ==
  LET r == SetLoop([items |-> d, i |-> 1, updates |-> <<>>, pc |-> "loop"], keyData)
  IN /\ Len(keySets) < MaxSets
     /\ keySets' = Append(keySets, AfterLoop(r.inv))
     /\ keyData' = r.data
     /\ keyLast' = LastAfter([items |-> d, i |-> 1], r.inv)
     /\ UNCHANGED <<restore, sseSent, keyRows, sessions, sessionStates, recentlySentMessageIds,
                    socks, calls, sends, logouts, ttlTimers, dbStatus, authRows,
                    webhookPosts, echoDropped, nNetwork, nRequests, pairings,
                    queue, pipeVars, tableVars, batchVars>>

\* ... the delete of a null entry is done, the loop goes on (auth.ts:71-77)
KeysDeleted(n) ==
  LET s == keySets[n]
      e == s.items[s.i]
      r == SetLoop([s EXCEPT !.i = @ + 1, !.pc = "loop"], keyData)
  IN /\ s.pc = "delete"
     /\ keyRows' = [keyRows EXCEPT ![KeyOf(e.type, e.id)] = Absent]
     /\ keySets' = [keySets EXCEPT ![n] = AfterLoop(r.inv)]
     /\ keyData' = r.data
     /\ keyLast' = LastAfter([s EXCEPT !.i = @ + 1], r.inv)
     /\ UNCHANGED <<restore, sseSent, sessions, sessionStates, recentlySentMessageIds,
                    socks, calls, sends, logouts, ttlTimers, dbStatus, authRows,
                    webhookPosts, echoDropped, nNetwork, nRequests, pairings,
                    queue, pipeVars, tableVars, batchVars>>

\* The rows after an upsert of the batched updates
Upserted(rows, updates) ==
  [k \in KeyNames |->
     IF \E j \in DOMAIN updates : updates[j].key = k
     THEN (CHOOSE u \in {updates[j] : j \in DOMAIN updates} : u.key = k).value
     ELSE rows[k]]

\* ... the upsert answered; an error is logged only (auth.ts:80-87)
KeysUpserted(n, ok) ==
  /\ keySets[n].pc = "upsert"
  /\ keyRows' = IF ok THEN Upserted(keyRows, keySets[n].updates) ELSE keyRows
  /\ keySets' = [keySets EXCEPT ![n].pc = IF ok THEN "done" ELSE "doneLogged"]
  /\ UNCHANGED <<restore, sseSent, keyData, keyLast, sessions, sessionStates, recentlySentMessageIds,
                 socks, calls, sends, logouts, ttlTimers, dbStatus, authRows,
                 webhookPosts, echoDropped, nNetwork, nRequests, pairings,
                 queue, pipeVars, tableVars, batchVars>>

\* ================================================================ worker
Org(h) == socks[h].org
Live(h) == socks[h].conn # "closed"
LiveSocks(t) == {h \in DOMAIN socks : Org(h) = t /\ Live(h)}

\* How many getOrCreateSession invocations tenant t has had so far
CallsFor(t) == Cardinality({c \in DOMAIN calls : calls[c].org = t})

\* sock.end(undefined): closes the connection; Baileys then emits
\* connection.update {connection: 'close'} without a logged-out status code.
\* Ending a connection that is already closed does nothing.
EndSock(S, h) ==
  IF h = NoSock \/ S[h].conn = "closed" THEN S
  ELSE [S EXCEPT ![h].conn = "closed", ![h].closeEv = "other",
                 ![h].callsAtClose = CallsFor(S[h].org)]

\* sock.logout(): closes the connection with DisconnectReason.loggedOut
LogoutSock(S, h) ==
  IF h = NoSock \/ S[h].conn = "closed" THEN S
  ELSE [S EXCEPT ![h].conn = "closed", ![h].closeEv = "loggedOut",
                 ![h].callsAtClose = CallsFor(S[h].org)]

\* getOrCreateSession up to its first await (auth.ts:178-193)
\* The invocations for tenant t that have not returned yet
PendingCalls(t) == {c \in DOMAIN calls : calls[c].org = t /\ calls[c].pc # "done"}

StartCall(t, forceNew) ==
  LET has == sessions[t] # NoSock
      pc == IF forceNew /\ has THEN "end" ELSE IF has THEN "done" ELSE "load"
  IN [org |-> t, forceNew |-> forceNew, pc |-> pc,
      sock |-> IF pc = "done" THEN sessions[t] ELSE NoSock,
      registered |-> has, overlaps |-> PendingCalls(t), reconnectOf |-> NoSock,
      oldSock |-> IF pc = "end" THEN sessions[t] ELSE NoSock]

StartCallSocks(t, forceNew) ==
  IF forceNew /\ sessions[t] # NoSock THEN EndSock(socks, sessions[t]) ELSE socks

\* POST /session/:orgId/init
InitSession(t, forceNew) ==
  /\ nRequests < MaxCalls
  /\ nRequests' = nRequests + 1
  /\ calls' = Append(calls, StartCall(t, forceNew))
  /\ socks' = StartCallSocks(t, forceNew)
  /\ UNCHANGED <<restore, sseSent, keyVars, pairings, sessions, sessionStates, recentlySentMessageIds, sends, logouts,
                 ttlTimers, dbStatus, authRows, webhookPosts, echoDropped,
                 nNetwork, queue, pipeVars, tableVars, batchVars>>

\* A forceNew that forgets to drop the old status entry
AfterEndKeepingStatus(c) ==
  /\ calls[c].pc = "end"
  /\ sessions' = [sessions EXCEPT ![calls[c].org] = NoSock]
  /\ calls' = [calls EXCEPT ![c].pc = "load"]
  /\ UNCHANGED <<restore, sseSent, keyVars, pairings, sessionStates, recentlySentMessageIds, socks, sends, logouts,
                 ttlTimers, dbStatus, authRows, webhookPosts, echoDropped,
                 nNetwork, nRequests, queue, pipeVars, tableVars, batchVars>>

\* getOrCreateSession resumed after `await oldSock.end()` (auth.ts:184-193)
AfterEnd(c) ==
  /\ calls[c].pc = "end"
  /\ sessions' = [sessions EXCEPT ![calls[c].org] = NoSock]
  /\ sessionStates' = [sessionStates EXCEPT ![calls[c].org] = "none"]
  /\ calls' = [calls EXCEPT ![c].pc = "load"]
  /\ UNCHANGED <<restore, sseSent, keyVars, pairings, recentlySentMessageIds, socks, sends, logouts, ttlTimers,
                 dbStatus, authRows, webhookPosts, echoDropped, nNetwork,
                 nRequests, queue, pipeVars, tableVars, batchVars>>

\* makeWASocket with the loaded auth state (auth.ts:193-217): creds.registered
\* is set once the stored credentials belong to a linked device
NewSock(t) == [org |-> t, conn |-> "connecting", closeEv |-> "none",
               closePc |-> "idle", callsAtClose |-> 0, wsOpen |-> FALSE,
               signalled |-> FALSE, registered |-> authRows[t]]

\* getOrCreateSession resumed after useSupabaseAuthState and
\* fetchLatestBaileysVersion: makeWASocket, handlers, sessions.set (auth.ts:199-325)
MakeSocket(c) ==
  /\ calls[c].pc = "load"
  /\ Len(socks) < MaxSocks
  /\ socks' = Append(socks, NewSock(calls[c].org))
  /\ sessions' = [sessions EXCEPT ![calls[c].org] = Len(socks) + 1]
  /\ calls' = [calls EXCEPT ![c].pc = "done", ![c].sock = Len(socks) + 1]
  /\ UNCHANGED <<restore, sseSent, keyVars, pairings, sessionStates, recentlySentMessageIds, sends, logouts, ttlTimers,
                 dbStatus, authRows, webhookPosts, echoDropped, nNetwork,
                 nRequests, queue, pipeVars, tableVars, batchVars>>

\* The connection.update listeners requestPairingCode attached to socket h
\* (auth.ts:363-378): a qr or an open resolves the wait
NotifyListeners(P, h) ==
  [p \in DOMAIN P |->
     IF P[p].pc = "wait" /\ P[p].sock = h
     THEN [P[p] EXCEPT !.pc = "ready", !.how = "signal"]
     ELSE P[p]]

\* The websocket of socket h is connected (sock.ws.isOpen, auth.ts:356)
WsIsOpen(h) == Live(h) /\ socks[h].wsOpen

\* The transport of a new socket connects, before the network sends anything
WsOpen(h) ==
  /\ socks[h].conn = "connecting"
  /\ ~socks[h].wsOpen
  /\ socks' = [socks EXCEPT ![h].wsOpen = TRUE]
  /\ UNCHANGED <<restore, sseSent, keyVars, pairings, sessions, sessionStates, recentlySentMessageIds, calls,
                 sends, logouts, ttlTimers, dbStatus, authRows, webhookPosts,
                 echoDropped, nNetwork, nRequests, queue, pipeVars, tableVars,
                 batchVars>>

\* The value of sseSent for a tenant without an SSE client
NoStream == "off"

\* sessionEmitter.emit(`update:${orgId}`, newState) (auth.ts:228): the onUpdate
\* listener of the tenant's SSE client, when there is one, writes the status
\* (index.ts:79-83)
Emit(sent, t, st) == IF sent[t] = NoStream THEN sent ELSE [sent EXCEPT ![t] = st]

\* No SSE client is connected
NoStreams == sseSent = [t \in Tenants |-> NoStream]

\* connection.update with a qr (auth.ts:224-229)
ConnectionQR(h) ==
  /\ socks[h].conn = "connecting"
  /\ sessionStates' = [sessionStates EXCEPT ![Org(h)] = "qr"]
  /\ sseSent' = Emit(sseSent, Org(h), "qr")
  /\ socks' = [socks EXCEPT ![h].wsOpen = TRUE, ![h].signalled = TRUE]
  /\ pairings' = NotifyListeners(pairings, h)
  /\ UNCHANGED <<restore, keyVars, sessions, recentlySentMessageIds, calls, sends, logouts,
                 ttlTimers, dbStatus, authRows, webhookPosts, echoDropped,
                 nNetwork, nRequests, queue, pipeVars, tableVars, batchVars>>

\* creds.update then connection.update open (auth.ts:219, 256-262, 91-103)
ConnectionOpen(h) ==
  /\ socks[h].conn = "connecting"
  /\ socks' = [socks EXCEPT ![h].conn = "open", ![h].wsOpen = TRUE,
                            ![h].signalled = TRUE]
  /\ pairings' = NotifyListeners(pairings, h)
  /\ authRows' = [authRows EXCEPT ![Org(h)] = TRUE]
  /\ sessionStates' = [sessionStates EXCEPT ![Org(h)] = "connected"]
  /\ sseSent' = Emit(sseSent, Org(h), "connected")
  /\ dbStatus' = [dbStatus EXCEPT ![Org(h)] = "connected"]
  /\ UNCHANGED <<restore, keyVars, sessions, recentlySentMessageIds, calls, sends, logouts,
                 ttlTimers, webhookPosts, echoDropped, nNetwork, nRequests, queue, pipeVars, tableVars, batchVars>>

\* The network closes a live connection, with or without the logged-out code
NetworkClose(h, reason) ==
  /\ Live(h)
  /\ nNetwork < MaxNetwork
  /\ nNetwork' = nNetwork + 1
  /\ socks' = [socks EXCEPT ![h].conn = "closed", ![h].closeEv = reason,
                            ![h].callsAtClose = CallsFor(Org(h))]
  /\ UNCHANGED <<restore, sseSent, keyVars, pairings, sessions, sessionStates, recentlySentMessageIds, calls, sends,
                 logouts, ttlTimers, dbStatus, authRows, webhookPosts,
                 echoDropped, nRequests, queue, pipeVars, tableVars, batchVars>>

\* connection.update close, up to `await updateDbStatus` (auth.ts:231-235)
ConnectionClose(h) ==
  /\ socks[h].closeEv # "none"
  /\ socks[h].closePc = "idle"
  /\ socks' = [socks EXCEPT ![h].closePc = "dbDisc"]
  /\ dbStatus' = [dbStatus EXCEPT ![Org(h)] = "disconnected"]
  /\ UNCHANGED <<restore, sseSent, keyVars, pairings, sessions, sessionStates, recentlySentMessageIds, calls, sends,
                 logouts, ttlTimers, authRows, webhookPosts, echoDropped,
                 nNetwork, nRequests, queue, pipeVars, tableVars, batchVars>>

\* A close handler that treats every close as a permanent logout
NeverReconnect(h) == FALSE

\* shouldReconnect (auth.ts:232)
ShouldReconnect(h) == socks[h].closeEv # "loggedOut"

\* the close handler resumed: reconnect branch (auth.ts:237-239)
CloseReconnect(h) ==
  /\ socks[h].closePc = "dbDisc"
  /\ ShouldReconnect(h)
  /\ sessions' = [sessions EXCEPT ![Org(h)] = NoSock]
  /\ calls' = Append(calls, [org |-> Org(h), forceNew |-> FALSE, pc |-> "load",
                             sock |-> NoSock, registered |-> FALSE,
                             overlaps |-> PendingCalls(Org(h)),
                             reconnectOf |-> h, oldSock |-> NoSock])
  /\ socks' = [socks EXCEPT ![h].closePc = "done"]
  /\ UNCHANGED <<restore, sseSent, keyVars, pairings, sessionStates, recentlySentMessageIds, sends, logouts, ttlTimers,
                 dbStatus, authRows, webhookPosts, echoDropped, nNetwork,
                 nRequests, queue, pipeVars, tableVars, batchVars>>

\* the close handler resumed: permanent logout, up to `await sock.logout()`
\* (auth.ts:240-246)
CloseLoggedOut(h) ==
  /\ socks[h].closePc = "dbDisc"
  /\ ~ShouldReconnect(h)
  /\ sessions' = [sessions EXCEPT ![Org(h)] = NoSock]
  /\ sessionStates' = [sessionStates EXCEPT ![Org(h)] = "none"]
  /\ socks' = [socks EXCEPT ![h].closePc = "logout"]
  /\ UNCHANGED <<restore, sseSent, keyVars, pairings, recentlySentMessageIds, calls, sends, logouts, ttlTimers,
                 dbStatus, authRows, webhookPosts, echoDropped, nNetwork,
                 nRequests, queue, pipeVars, tableVars, batchVars>>

\* ... up to `await updateDbStatus(orgId, 'logged_out')` (auth.ts:247-253)
CloseSetLoggedOut(h) ==
  /\ socks[h].closePc = "logout"
  /\ sessionStates' = [sessionStates EXCEPT ![Org(h)] = "logged_out"]
  /\ sseSent' = Emit(sseSent, Org(h), "logged_out")
  /\ dbStatus' = [dbStatus EXCEPT ![Org(h)] = "logged_out"]
  /\ socks' = [socks EXCEPT ![h].closePc = "clear"]
  /\ UNCHANGED <<restore, keyVars, pairings, sessions, recentlySentMessageIds, calls, sends, logouts,
                 ttlTimers, authRows, webhookPosts, echoDropped, nNetwork,
                 nRequests, queue, pipeVars, tableVars, batchVars>>

\* ... `await clearAuthState(orgId)` (auth.ts:254, 151-170)
CloseClearAuth(h) ==
  /\ socks[h].closePc = "clear"
  /\ authRows' = [authRows EXCEPT ![Org(h)] = FALSE]
  /\ socks' = [socks EXCEPT ![h].closePc = "done"]
  /\ UNCHANGED <<restore, sseSent, keyVars, pairings, sessions, sessionStates, recentlySentMessageIds, calls, sends,
                 logouts, ttlTimers, dbStatus, webhookPosts, echoDropped,
                 nNetwork, nRequests, queue, pipeVars, tableVars, batchVars>>

\* ---------------------------------------------------------- logoutSession
\* logoutSession up to `await sock.logout()` (auth.ts:445-447); without a
\* registered socket it runs on to `await clearAuthState` (auth.ts:448-450)
LogoutSession(t) ==
  /\ nRequests < MaxCalls
  /\ nRequests' = nRequests + 1
  /\ IF sessions[t] # NoSock
     THEN /\ socks' = LogoutSock(socks, sessions[t])
          /\ logouts' = Append(logouts, [org |-> t, pc |-> "logout",
                                         sock |-> sessions[t],
                                         callsBefore |-> CallsFor(t)])
          /\ UNCHANGED <<sessions, sessionStates, authRows>>
     ELSE /\ sessions' = [sessions EXCEPT ![t] = NoSock]
          /\ sessionStates' = [sessionStates EXCEPT ![t] = "none"]
          /\ authRows' = [authRows EXCEPT ![t] = FALSE]
          /\ logouts' = Append(logouts, [org |-> t, pc |-> "clear",
                                         sock |-> NoSock,
                                         callsBefore |-> CallsFor(t)])
          /\ UNCHANGED socks
  /\ UNCHANGED <<restore, sseSent, keyVars, pairings, recentlySentMessageIds, calls, sends, ttlTimers, dbStatus,
                 webhookPosts, echoDropped, nNetwork, queue, pipeVars, tableVars,
                 batchVars>>

\* ... resumed after sock.logout(): deletes, clearAuthState (auth.ts:448-450)
LogoutDelete(l) ==
  /\ logouts[l].pc = "logout"
  /\ sessions' = [sessions EXCEPT ![logouts[l].org] = NoSock]
  /\ sessionStates' = [sessionStates EXCEPT ![logouts[l].org] = "none"]
  /\ authRows' = [authRows EXCEPT ![logouts[l].org] = FALSE]
  /\ logouts' = [logouts EXCEPT ![l].pc = "clear"]
  /\ UNCHANGED <<restore, sseSent, keyVars, pairings, recentlySentMessageIds, socks, calls, sends, ttlTimers, dbStatus,
                 webhookPosts, echoDropped, nNetwork, nRequests, queue, pipeVars,
                 tableVars, batchVars>>

\* ... resumed after clearAuthState: updateDbStatus (auth.ts:451)
LogoutDbStatus(l) ==
  /\ logouts[l].pc = "clear"
  /\ dbStatus' = [dbStatus EXCEPT ![logouts[l].org] = "logged_out"]
  /\ logouts' = [logouts EXCEPT ![l].pc = "done"]
  /\ UNCHANGED <<restore, sseSent, keyVars, pairings, sessions, sessionStates, recentlySentMessageIds, socks, calls,
                 sends, ttlTimers, authRows, webhookPosts, echoDropped, nNetwork,
                 nRequests, queue, pipeVars, tableVars, batchVars>>

\* ------------------------------------------------------ requestPairingCode
\* logoutSession entered from requestPairingCode, up to its first await
\* (auth.ts:445-450)
LogoutRecord(t) ==
  [org |-> t, pc |-> IF sessions[t] # NoSock THEN "logout" ELSE "clear",
   sock |-> sessions[t], callsBefore |-> CallsFor(t)]

EnterLogout(t) ==
  /\ logouts' = Append(logouts, LogoutRecord(t))
  /\ IF sessions[t] # NoSock
     THEN /\ socks' = LogoutSock(socks, sessions[t])
          /\ UNCHANGED <<sessions, sessionStates, authRows>>
     ELSE /\ sessions' = [sessions EXCEPT ![t] = NoSock]
          /\ sessionStates' = [sessionStates EXCEPT ![t] = "none"]
          /\ authRows' = [authRows EXCEPT ![t] = FALSE]
          /\ UNCHANGED socks

\* requestPairingCode from its entry to its first await (auth.ts:328-336):
\* logoutSession when a handle is registered, getOrCreateSession otherwise
EnterPairing(P, p, t) ==
  IF sessions[t] # NoSock
  THEN /\ EnterLogout(t)
       /\ pairings' = [P EXCEPT ![p].pc = "logout", ![p].logout = Len(logouts) + 1]
       /\ UNCHANGED calls
  ELSE /\ calls' = Append(calls, StartCall(t, FALSE))
       /\ pairings' = [P EXCEPT ![p].pc = "getSock", ![p].call = Len(calls) + 1]
       /\ UNCHANGED <<sessions, sessionStates, authRows, socks, logouts>>

NewPairing(t) ==
  [org |-> t, pc |-> "start", logout |-> 0, call |-> 0, sock |-> NoSock,
   how |-> "none", signalAtIssue |-> FALSE, error |-> "none", attempts |-> 0,
   forcedLogouts |-> 0]

\* POST /session/:orgId/pairing-code
RequestPairingCode(t) ==
  /\ Len(pairings) < MaxPairings
  /\ EnterPairing(Append(pairings, NewPairing(t)), Len(pairings) + 1, t)
  /\ UNCHANGED <<restore, sseSent, keyVars, recentlySentMessageIds, sends, ttlTimers, dbStatus, webhookPosts,
                 echoDropped, nNetwork, nRequests, queue, pipeVars, tableVars,
                 batchVars>>

\* ... resumed after `await logoutSession` (auth.ts:332-336)
PairingAfterLogout(p) ==
  /\ pairings[p].pc = "logout"
  /\ logouts[pairings[p].logout].pc = "done"
  /\ calls' = Append(calls, StartCall(pairings[p].org, FALSE))
  /\ pairings' = [pairings EXCEPT ![p].pc = "getSock", ![p].call = Len(calls) + 1]
  /\ UNCHANGED <<restore, sseSent, keyVars, sessions, sessionStates, recentlySentMessageIds, socks, sends,
                 logouts, ttlTimers, dbStatus, authRows, webhookPosts,
                 echoDropped, nNetwork, nRequests, queue, pipeVars, tableVars,
                 batchVars>>

\* ... resumed with the socket (auth.ts:339-387, 395-399): an unregistered
\* socket gets the timer and the listener, and the wait is over at once when
\* the tenant's status entry says qr; a registered one is logged out
PairingGotSock(p) ==
  LET t == pairings[p].org
      h == calls[pairings[p].call].sock
  IN /\ pairings[p].pc = "getSock"
     /\ calls[pairings[p].call].pc = "done"
     /\ IF ~socks[h].registered
        THEN /\ pairings' =
                  [pairings EXCEPT ![p].sock = h,
                     ![p].attempts = @ + 1,
                     ![p].pc = IF sessionStates[t] = "qr" THEN "ready" ELSE "wait",
                     ![p].how = IF sessionStates[t] = "qr" THEN "status" ELSE "none"]
             /\ UNCHANGED <<sessions, sessionStates, authRows, socks, logouts>>
        ELSE /\ EnterLogout(t)
             /\ pairings' = [pairings EXCEPT ![p].sock = h, ![p].pc = "relogout",
                                              ![p].forcedLogouts = @ + 1,
                                              ![p].logout = Len(logouts) + 1]
     /\ UNCHANGED <<restore, sseSent, keyVars, recentlySentMessageIds, calls, sends, ttlTimers, dbStatus,
                    webhookPosts, echoDropped, nNetwork, nRequests, queue,
                    pipeVars, tableVars, batchVars>>

\* The 10 s timer fires while still waiting (auth.ts:351-361)
PairingTimeout(p) ==
  /\ pairings[p].pc = "wait"
  /\ pairings' =
       IF WsIsOpen(pairings[p].sock)
       THEN [pairings EXCEPT ![p].pc = "ready", ![p].how = "timeout"]
       ELSE [pairings EXCEPT ![p].pc = "failed", ![p].how = "timeout",
                             ![p].error = "Connection/QR timeout - Socket not ready"]
  /\ UNCHANGED <<restore, sseSent, keyVars, sessions, sessionStates, recentlySentMessageIds, socks, calls,
                 sends, logouts, ttlTimers, dbStatus, authRows, webhookPosts,
                 echoDropped, nNetwork, nRequests, queue, pipeVars, tableVars,
                 batchVars>>

\* ... resumed after the wait: `await sock.requestPairingCode` (auth.ts:390-391)
PairingRequest(p) ==
  /\ pairings[p].pc = "ready"
  /\ pairings' = [pairings EXCEPT ![p].pc = "requested",
                    ![p].signalAtIssue = socks[pairings[p].sock].signalled]
  /\ UNCHANGED <<restore, sseSent, keyVars, sessions, sessionStates, recentlySentMessageIds, socks, calls,
                 sends, logouts, ttlTimers, dbStatus, authRows, webhookPosts,
                 echoDropped, nNetwork, nRequests, queue, pipeVars, tableVars,
                 batchVars>>

\* ... the socket answered with a code or threw (auth.ts:391-393)
PairingReturn(p, ok) ==
  /\ pairings[p].pc = "requested"
  /\ pairings' = IF ok THEN [pairings EXCEPT ![p].pc = "done"]
                 ELSE [pairings EXCEPT ![p].pc = "failed", ![p].error = "request"]
  /\ UNCHANGED <<restore, sseSent, keyVars, sessions, sessionStates, recentlySentMessageIds, socks, calls,
                 sends, logouts, ttlTimers, dbStatus, authRows, webhookPosts,
                 echoDropped, nNetwork, nRequests, queue, pipeVars, tableVars,
                 batchVars>>

\* ... registered socket: resumed after `await logoutSession` (auth.ts:399-403)
PairingAfterRelogout(p) ==
  /\ pairings[p].pc = "relogout"
  /\ logouts[pairings[p].logout].pc = "done"
  /\ calls' = Append(calls, StartCall(pairings[p].org, FALSE))
  /\ pairings' = [pairings EXCEPT ![p].pc = "regetSock", ![p].call = Len(calls) + 1]
  /\ UNCHANGED <<restore, sseSent, keyVars, sessions, sessionStates, recentlySentMessageIds, socks, sends,
                 logouts, ttlTimers, dbStatus, authRows, webhookPosts,
                 echoDropped, nNetwork, nRequests, queue, pipeVars, tableVars,
                 batchVars>>

\* ... resumed with the new socket: requestPairingCode again, or give up
\* (auth.ts:403-409)
PairingRetry(p) ==
  LET t == pairings[p].org
      h == calls[pairings[p].call].sock
  IN /\ pairings[p].pc = "regetSock"
     /\ calls[pairings[p].call].pc = "done"
     /\ IF ~socks[h].registered
        THEN EnterPairing([pairings EXCEPT ![p].forcedLogouts =
                             IF sessions[t] # NoSock THEN @ + 1 ELSE @], p, t)
        ELSE /\ pairings' =
                  [pairings EXCEPT ![p].pc = "failed",
                     ![p].error = "Session is stuck in registered state even after logout"]
             /\ UNCHANGED <<sessions, sessionStates, authRows, socks, logouts, calls>>
     /\ UNCHANGED <<restore, sseSent, keyVars, recentlySentMessageIds, sends, ttlTimers, dbStatus,
                    webhookPosts, echoDropped, nNetwork, nRequests, queue,
                    pipeVars, tableVars, batchVars>>

\* getSessionStatus (auth.ts:440-442): the sessionStates entry, or not_started
\* when the tenant has none
GetSessionStatus(t) ==
  IF sessionStates[t] # "none" THEN sessionStates[t] ELSE "not_started"

\* GET /session/:orgId/sse (index.ts:57-83): the client is sent the current
\* status and subscribed to the tenant's updates
SseOpen(t) ==
  /\ sseSent[t] = NoStream
  /\ sseSent' = [sseSent EXCEPT ![t] = GetSessionStatus(t)]
  /\ UNCHANGED <<restore, keyVars, pairings, sessions, sessionStates, recentlySentMessageIds,
                 socks, calls, sends, logouts, ttlTimers, dbStatus, authRows,
                 webhookPosts, echoDropped, nNetwork, nRequests, queue, pipeVars,
                 tableVars, batchVars>>

\* The SSE client goes away (index.ts:85-88)
SseClose(t) ==
  /\ sseSent[t] # NoStream
  /\ sseSent' = [sseSent EXCEPT ![t] = NoStream]
  /\ UNCHANGED <<restore, keyVars, pairings, sessions, sessionStates, recentlySentMessageIds,
                 socks, calls, sends, logouts, ttlTimers, dbStatus, authRows,
                 webhookPosts, echoDropped, nNetwork, nRequests, queue, pipeVars,
                 tableVars, batchVars>>

\* ---------------------------------------------------- initAllActiveSessions
MaxOrgs == 7       \* tenants whose persisted status is connected

\* auth.ts:474
BATCH_SIZE == 5

Orgs == 1..MaxOrgs

\* initAllActiveSessions has not been called
IdleRestore ==
  [pc |-> "idle", listed |-> FALSE, orgs |-> 0, i |-> 0,
   st |-> [k \in Orgs |-> "waiting"]]

NoRestore == restore = IdleRestore

\* orgs.slice(i, i + BATCH_SIZE) (auth.ts:478)
BatchAt(r, i) == {k \in 1..r.orgs : i < k /\ k <= i + BATCH_SIZE}

\* The calls an iteration of the loop starts, up to `await Promise.all`
\* (auth.ts:477-486); the loop ends when no tenant is left
StartBatch(r, i) ==
  IF i < r.orgs
  THEN [r EXCEPT !.pc = "batch", !.i = i,
                 !.st = [k \in Orgs |-> IF k \in BatchAt(r, i) THEN "running"
                                        ELSE r.st[k]]]
  ELSE [r EXCEPT !.pc = "done", !.i = i]

\* The select of the connected tenants answered (auth.ts:460-470): n tenants,
\* or an error, after which nothing is restored
RestoreSelected(n, ok) ==
  /\ restore.pc = "select"
  /\ restore' = IF ok THEN StartBatch([restore EXCEPT !.listed = TRUE, !.orgs = n], 0)
                 ELSE [restore EXCEPT !.pc = "done"]
  /\ UNCHANGED <<sseSent, keyVars, pairings, sessions, sessionStates,
                 recentlySentMessageIds, socks, calls, sends, logouts, ttlTimers,
                 dbStatus, authRows, webhookPosts, echoDropped, nNetwork,
                 nRequests, queue, pipeVars, tableVars, batchVars>>

\* A restoration whose failure ends the whole run
RestoreSettledOrAbort(k, ok) ==
  /\ restore.pc = "batch"
  /\ restore.st[k] = "running"
  /\ restore' = IF ok THEN [restore EXCEPT !.st[k] = "restored"]
                 ELSE [restore EXCEPT !.st[k] = "failed", !.pc = "done"]
  /\ UNCHANGED <<sseSent, keyVars, pairings, sessions, sessionStates,
                 recentlySentMessageIds, socks, calls, sends, logouts, ttlTimers,
                 dbStatus, authRows, webhookPosts, echoDropped, nNetwork,
                 nRequests, queue, pipeVars, tableVars, batchVars>>

\* getOrCreateSession(org.id) of tenant k returned or threw inside its own
\* try/catch (auth.ts:479-485)
RestoreSettled(k, ok) ==
  /\ restore.pc = "batch"
  /\ restore.st[k] = "running"
  /\ restore' = [restore EXCEPT !.st[k] = IF ok THEN "restored" ELSE "failed"]
  /\ UNCHANGED <<sseSent, keyVars, pairings, sessions, sessionStates,
                 recentlySentMessageIds, socks, calls, sends, logouts, ttlTimers,
                 dbStatus, authRows, webhookPosts, echoDropped, nNetwork,
                 nRequests, queue, pipeVars, tableVars, batchVars>>

\* Promise.all resolved (auth.ts:479-491): the delay is awaited when tenants
\* are left, otherwise the loop ends
RestoreBatchDone ==
  /\ restore.pc = "batch"
  /\ \A k \in Orgs : restore.st[k] # "running"
  /\ restore' = [restore EXCEPT !.pc = IF restore.i + BATCH_SIZE < restore.orgs
                                       THEN "delay" ELSE "done"]
  /\ UNCHANGED <<sseSent, keyVars, pairings, sessions, sessionStates,
                 recentlySentMessageIds, socks, calls, sends, logouts, ttlTimers,
                 dbStatus, authRows, webhookPosts, echoDropped, nNetwork,
                 nRequests, queue, pipeVars, tableVars, batchVars>>

\* The delay elapsed (auth.ts:488-491, 477)
RestoreNextBatch ==
  /\ restore.pc = "delay"
  /\ restore' = StartBatch(restore, restore.i + BATCH_SIZE)
  /\ UNCHANGED <<sseSent, keyVars, pairings, sessions, sessionStates,
                 recentlySentMessageIds, socks, calls, sends, logouts, ttlTimers,
                 dbStatus, authRows, webhookPosts, echoDropped, nNetwork,
                 nRequests, queue, pipeVars, tableVars, batchVars>>

\* ------------------------------------------------------------ sendMessage
\* auth.ts:416
NormalizeJid(to) == IF to.server # "" THEN to ELSE UserJid(to.user)

\* auth.ts:420: a fresh random id per invocation
MessageId(s) == <<"sent", s>>

\* sendMessage up to `await getOrCreateSession(orgId)` (auth.ts:412-413)
SendMessage(t, to) ==
  /\ nRequests < MaxCalls
  /\ nRequests' = nRequests + 1
  /\ calls' = Append(calls, StartCall(t, FALSE))
  /\ sends' = Append(sends, [org |-> t, to |-> to, call |-> Len(calls) + 1,
                             pc |-> "getSock", sock |-> NoSock])
  /\ UNCHANGED <<restore, sseSent, keyVars, pairings, sessions, sessionStates, recentlySentMessageIds, socks, logouts,
                 ttlTimers, dbStatus, authRows, webhookPosts, echoDropped,
                 nNetwork, queue, pipeVars, tableVars, batchVars>>

\* A sendMessage that does not register the id
RegisterNothing(set, id) == set

\* The pending-echo registration of sendMessage (auth.ts:423)
RegisterEcho(set, id) == set \cup {id}

\* A catch block that leaves the id in the set
KeepEcho(set, id) == set

\* The removal in the catch block of sendMessage (auth.ts:435)
ForgetEcho(set, id) == set \ {id}

\* ... resumed with the socket: id, pending-echo set, TTL timer, then
\* `await sock.sendMessage` (auth.ts:416-430)
SendInvoke(s) ==
  /\ sends[s].pc = "getSock"
  /\ calls[sends[s].call].pc = "done"
  /\ recentlySentMessageIds' = RegisterEcho(recentlySentMessageIds, MessageId(s))
  /\ ttlTimers' = ttlTimers \cup {MessageId(s)}
  /\ sends' = [sends EXCEPT ![s].pc = "sending", ![s].sock = calls[sends[s].call].sock]
  /\ UNCHANGED <<restore, sseSent, keyVars, pairings, sessions, sessionStates, socks, calls, logouts, dbStatus,
                 authRows, webhookPosts, echoDropped, nNetwork, nRequests, queue,
                 pipeVars, tableVars, batchVars>>

\* ... sock.sendMessage returned or threw (auth.ts:431-437)
SendReturn(s, ok) ==
  /\ sends[s].pc = "sending"
  /\ IF ok
     THEN /\ sends' = [sends EXCEPT ![s].pc = "done"]
          /\ UNCHANGED recentlySentMessageIds
     ELSE /\ sends' = [sends EXCEPT ![s].pc = "failed"]
          /\ recentlySentMessageIds' = ForgetEcho(recentlySentMessageIds, MessageId(s))
  /\ UNCHANGED <<restore, sseSent, keyVars, pairings, sessions, sessionStates, socks, calls, logouts, ttlTimers,
                 dbStatus, authRows, webhookPosts, echoDropped, nNetwork,
                 nRequests, queue, pipeVars, tableVars, batchVars>>

\* A timer whose callback leaves the set alone
TtlExpireKeeping(id) ==
  /\ id \in ttlTimers
  /\ ttlTimers' = ttlTimers \ {id}
  /\ UNCHANGED <<restore, sseSent, keyVars, pairings, sessions, sessionStates, socks, calls, sends, logouts, dbStatus,
                 authRows, webhookPosts, echoDropped, nNetwork, nRequests, queue,
                 pipeVars, tableVars, batchVars, recentlySentMessageIds>>

\* setTimeout(() => recentlySentMessageIds.delete(messageId), 30000) (auth.ts:425)
TtlExpire(id) ==
  /\ id \in ttlTimers
  /\ ttlTimers' = ttlTimers \ {id}
  /\ recentlySentMessageIds' = recentlySentMessageIds \ {id}
  /\ UNCHANGED <<restore, sseSent, keyVars, pairings, sessions, sessionStates, socks, calls, sends, logouts, dbStatus,
                 authRows, webhookPosts, echoDropped, nNetwork, nRequests, queue,
                 pipeVars, tableVars, batchVars>>

\* -------------------------------------------------- messages.upsert handler
\* The own-device event the network reports for a message sendMessage handed
\* to the socket; a send that failed was not delivered and has no echo.
EchoOf(s) ==
  WAMessage(MessageId(s), TRUE, NormalizeJid(sends[s].to), Conversation("reply"),
            "", TsNumber(Now), NoJid)

Echoes(t) ==
  {EchoOf(s) : s \in {x \in DOMAIN sends :
                        sends[x].org = t /\ sends[x].pc \in {"sending", "done"}}}

\* The handler without its rule 2: an own-device event is never taken for an
\* echo
ClassifyWithoutEchoRule(m, pending) ==
  IF IsJidBroadcast(m.key.remoteJid) THEN "broadcast" ELSE "forward"

\* Rules 1 and 2 of the handler (auth.ts:281-295)
Classify(m, pending) ==
  IF IsJidBroadcast(m.key.remoteJid) THEN "broadcast"
  ELSE IF m.key.fromMe /\ m.key.id \in pending THEN "echo"
  ELSE "forward"

\* HistoryManager.queueMessages: the pushes (index.ts:171-177)
QueuePush(q, t, msgs) ==
  LET kept == SelectSeq(msgs, LAMBDA m : m.message # NoBody)
  IN q \o [i \in 1..Len(kept) |-> [orgId |-> t, message |-> kept[i]]]

\* messages.upsert of type notify with one message (auth.ts:281-321); posted
\* says whether the fetch reached the webhook
UpsertNotify(h, m, posted) ==
  /\ socks[h].conn = "open"
  /\ nNetwork < MaxNetwork
  /\ nNetwork' = nNetwork + 1
  /\ LET c == Classify(m, recentlySentMessageIds) IN
       /\ webhookPosts' =
            IF c = "forward" /\ posted
            THEN Append(webhookPosts,
                        [orgId |-> Org(h), message |-> m, type |-> "notify",
                         ttlPending |-> m.key.id \in ttlTimers])
            ELSE webhookPosts
       /\ echoDropped' = IF c = "echo" THEN echoDropped \cup {m.key.id}
                         ELSE echoDropped
  /\ UNCHANGED <<restore, sseSent, keyVars, pairings, sessions, sessionStates, recentlySentMessageIds, socks, calls,
                 sends, logouts, ttlTimers, dbStatus, authRows, nRequests, queue,
                 pipeVars, tableVars, batchVars>>

\* ========================================================= HistoryManager
batchSize == 100    \* index.ts:157

LeadUsers == Phones \cup {"status"}
LeadKeys == Tenants \X LeadUsers
NoLead == [ai_status |-> "absent", name |-> "", real_phone |-> ""]

\* jid.split('@')[0] and the cache key (index.ts:201-202)
LeadKeyOf(item) == <<item.orgId, item.message.key.remoteJid.user>>

\* index.ts:215-218
HistoryText(m) ==
  IF m.message.kind \in {"conversation", "extendedText", "imageCaption"}
  THEN m.message.text ELSE ""

\* index.ts:224-226: a number is taken as is, otherwise the Long's low word,
\* and the current time when that is missing or zero
HistoryTs(m) ==
  IF m.messageTimestamp.shape = "number" THEN m.messageTimestamp.v
  ELSE IF m.messageTimestamp.shape = "long" /\ m.messageTimestamp.v # 0
       THEN m.messageTimestamp.v
       ELSE Now

\* index.ts:230-237
HistoryRow(item) ==
  [organization_id |-> item.orgId, lead |-> LeadKeyOf(item)[2],
   role |-> IF item.message.key.fromMe THEN "assistant" ELSE "user",
   content |-> HistoryText(item.message), type |-> "text",
   whatsapp_message_id |-> NoId, created_at |-> HistoryTs(item.message)]

\* index.ts:214-239
AddRow(acc, item) ==
  IF HistoryText(item.message) # "" THEN Append(acc, HistoryRow(item)) ELSE acc

\* An item the loop of flush has to look up or create the lead for
\* (index.ts:198-211)
CacheMiss(item, cache) ==
  item.message.key.remoteJid # NoJid /\ LeadKeyOf(item) \notin cache

\* The first item of b that suspends the loop, Len(b) + 1 when none does
FirstMiss(b, cache) ==
  CHOOSE n \in 1..(Len(b) + 1) :
    /\ n = Len(b) + 1 \/ CacheMiss(b[n], cache)
    /\ \A j \in 1..(n - 1) : ~CacheMiss(b[j], cache)

\* The rows of the items of b that have an address and a text (index.ts:198,
\* 214-239)
RowsOf(b) ==
  LET kept == SelectSeq(b, LAMBDA x : x.message.key.remoteJid # NoJid
                                       /\ HistoryText(x.message) # "")
  IN [i \in 1..Len(kept) |-> HistoryRow(kept[i])]

\* The loop of flush (index.ts:195-240) as far as it runs without an await:
\* items whose lead id is cached are handled, the first cache miss suspends
\* the loop in getOrCreateLead
RunLoop(b, cache, acc) ==
  [rest |-> SubSeq(b, FirstMiss(b, cache), Len(b)),
   acc |-> acc \o RowsOf(SubSeq(b, 1, FirstMiss(b, cache) - 1))]

\* A flush that takes the whole queue
TakeAll(q) == Len(q)

\* How many items flush takes (index.ts:189)
TakeCount(q) == IF Len(q) < batchSize THEN Len(q) ELSE batchSize

\* flush resumes its loop over b with cache and rows acc; at the end of the
\* loop it issues the bulk insert, or finishes when there is nothing to insert
\* (index.ts:195-261)
ContinueFlush(b, cache, acc) ==
  \E r \in {RunLoop(b, cache, acc)} :
    IF SelectSeq(r.acc, LAMBDA x : x.created_at = NaN) # <<>>
    THEN \* toISOString threw: catch and finally (index.ts:228, 257-261)
         /\ batch' = <<>>
         /\ messagesToInsert' = <<>>
         /\ leadCache' = cache
         /\ flushPc' = "idle"
         /\ processing' = FALSE
    ELSE /\ batch' = r.rest
         /\ messagesToInsert' = r.acc
         /\ leadCache' = cache
         /\ IF r.rest # <<>> THEN /\ flushPc' = "select"
                                  /\ processing' = TRUE
            ELSE IF r.acc # <<>> THEN /\ flushPc' = "bulk"
                                      /\ processing' = TRUE
            ELSE /\ flushPc' = "idle"
                 /\ processing' = FALSE

\* A flush that does not look at the in-progress flag
FlushUnguarded(q) ==
  IF q = <<>>
  THEN /\ queue' = q
       /\ UNCHANGED <<processing, leadCache, batch, messagesToInsert, flushPc,
                      flushLog>>
  ELSE /\ queue' = SubSeq(q, TakeCount(q) + 1, Len(q))
       /\ flushLog' = Append(flushLog, [took |-> TakeCount(q), inserts |-> 0])
       /\ ContinueFlush(SubSeq(q, 1, TakeCount(q)), leadCache, <<>>)

\* flush called on queue q (index.ts:184-189): a no-op while a flush is in
\* progress or when the queue is empty
Flush(q) ==
  IF processing \/ q = <<>>
  THEN /\ queue' = q
       /\ UNCHANGED <<processing, leadCache, batch, messagesToInsert, flushPc,
                      flushLog>>
  ELSE /\ queue' = SubSeq(q, TakeCount(q) + 1, Len(q))
       /\ flushLog' = Append(flushLog, [took |-> TakeCount(q), inserts |-> 0])
       /\ ContinueFlush(SubSeq(q, 1, TakeCount(q)), leadCache, <<>>)

\* HistoryManager.queueMessages (index.ts:170-182)
QueueMessages(t, msgs) ==
  LET q == QueuePush(queue, t, msgs) IN
    IF Len(q) >= batchSize THEN Flush(q)
    ELSE /\ queue' = q
         /\ UNCHANGED <<processing, leadCache, batch, messagesToInsert, flushPc,
                        flushLog>>

\* messages.upsert of type append (auth.ts:275-279), while fewer than max
\* events have been delivered
AppendWithin(max, h, msgs) ==
  /\ socks[h].conn = "open"
  /\ nNetwork < max
  /\ nNetwork' = nNetwork + 1
  /\ QueueMessages(Org(h), msgs)
  /\ UNCHANGED <<restore, sseSent, keyVars, pairings, sessions, sessionStates, recentlySentMessageIds, socks, calls,
                 sends, logouts, ttlTimers, dbStatus, authRows, webhookPosts,
                 echoDropped, nRequests, pipeVars, tableVars>>

UpsertAppend(h, msgs) == AppendWithin(MaxNetwork, h, msgs)

\* setInterval(() => this.flush(), 2000) (index.ts:165-168)
FlushTimer ==
  /\ Flush(queue)
  /\ UNCHANGED <<workerVars, pipeVars, tableVars>>

\* A getOrCreateLead that pauses the existing lead of an operator message, as
\* the live pipeline does
FlushSelectPausing ==
  /\ flushPc = "select"
  /\ IF leads[LeadKeyOf(Head(batch))] # NoLead
     THEN /\ ContinueFlush(Tail(batch), leadCache \cup {LeadKeyOf(Head(batch))},
                           AddRow(messagesToInsert, Head(batch)))
          /\ leads' = [leads EXCEPT ![LeadKeyOf(Head(batch))].ai_status =
                         IF Head(batch).message.key.fromMe THEN "paused" ELSE @]
     ELSE /\ flushPc' = "insert"
          /\ UNCHANGED <<processing, leadCache, batch, messagesToInsert, leads>>
  /\ UNCHANGED <<workerVars, queue, flushLog, pipeVars, messages>>

\* getOrCreateLead resumed with the select's answer (index.ts:267-286): an
\* existing lead is cached and the loop goes on, otherwise the insert is issued
FlushSelect ==
  /\ flushPc = "select"
  /\ IF leads[LeadKeyOf(Head(batch))] # NoLead
     THEN ContinueFlush(Tail(batch), leadCache \cup {LeadKeyOf(Head(batch))},
                        AddRow(messagesToInsert, Head(batch)))
     ELSE /\ flushPc' = "insert"
          /\ UNCHANGED <<processing, leadCache, batch, messagesToInsert>>
  /\ UNCHANGED <<workerVars, queue, flushLog, pipeVars, tableVars>>

\* The lead getOrCreateLead inserts (index.ts:279-284)
HistoryLead(isFromMe) ==
  [ai_status |-> IF isFromMe THEN "paused" ELSE "active", name |-> "",
   real_phone |-> ""]

\* getOrCreateLead resumed with the insert's answer (index.ts:277-292): the
\* unique index on (organization_id, phone) rejects a second lead, and the
\* item is then skipped without a cache entry
FlushInsertLead ==
  /\ flushPc = "insert"
  /\ IF leads[LeadKeyOf(Head(batch))] = NoLead
     THEN /\ leads' = [leads EXCEPT ![LeadKeyOf(Head(batch))] =
                          HistoryLead(Head(batch).message.key.fromMe)]
          /\ ContinueFlush(Tail(batch), leadCache \cup {LeadKeyOf(Head(batch))},
                           AddRow(messagesToInsert, Head(batch)))
     ELSE /\ UNCHANGED leads
          /\ ContinueFlush(Tail(batch), leadCache, messagesToInsert)
  /\ UNCHANGED <<workerVars, queue, flushLog, pipeVars, messages>>

\* A flush that puts an event of the batch back when the insert fails
FlushBulkInsertRequeue(ok) ==
  /\ flushPc = "bulk"
  /\ messages' = IF ok THEN messages \o messagesToInsert ELSE messages
  /\ queue' = IF ok THEN queue
              ELSE Append(queue, [orgId |-> messagesToInsert[1].organization_id,
                                  message |-> EvHi])
  /\ flushLog' = [flushLog EXCEPT ![Len(flushLog)].inserts = @ + 1]
  /\ messagesToInsert' = <<>>
  /\ flushPc' = "idle"
  /\ processing' = FALSE
  /\ UNCHANGED <<workerVars, leadCache, batch, pipeVars, leads>>

\* A flush without its finally block: a failed insert leaves the flag set
FlushBulkInsertNoFinally(ok) ==
  /\ flushPc = "bulk"
  /\ messages' = IF ok THEN messages \o messagesToInsert ELSE messages
  /\ flushLog' = [flushLog EXCEPT ![Len(flushLog)].inserts = @ + 1]
  /\ messagesToInsert' = <<>>
  /\ flushPc' = "idle"
  /\ processing' = ~ok
  /\ UNCHANGED <<workerVars, queue, leadCache, batch, pipeVars, leads>>

\* The bulk insert answered, then finally (index.ts:249-261)
FlushBulkInsert(ok) ==
  /\ flushPc = "bulk"
  /\ messages' = IF ok THEN messages \o messagesToInsert ELSE messages
  /\ flushLog' = [flushLog EXCEPT ![Len(flushLog)].inserts = @ + 1]
  /\ messagesToInsert' = <<>>
  /\ flushPc' = "idle"
  /\ processing' = FALSE
  /\ UNCHANGED <<workerVars, queue, leadCache, batch, pipeVars, leads>>

\* ==================================================== worker specification
EmptyTables ==
  /\ leads = [k \in LeadKeys |-> NoLead]
  /\ messages = <<>>

IdlePipeline ==
  /\ handlers = <<>>
  /\ aiLog = <<>>
  /\ sendLog = <<>>
  /\ clock = 0
  /\ nToggles = 0

IdleBatcher ==
  /\ queue = <<>>
  /\ processing = FALSE
  /\ leadCache = {}
  /\ batch = <<>>
  /\ messagesToInsert = <<>>
  /\ flushPc = "idle"
  /\ flushLog = <<>>

\* The worker process after start, before any request (auth.ts:127-129)
IdleWorker ==
  /\ sessions = [t \in Tenants |-> NoSock]
  /\ sessionStates = [t \in Tenants |-> "none"]
  /\ recentlySentMessageIds = {}
  /\ socks = <<>>
  /\ calls = <<>>
  /\ sends = <<>>
  /\ logouts = <<>>
  /\ ttlTimers = {}
  /\ dbStatus = [t \in Tenants |-> "disconnected"]
  /\ authRows = [t \in Tenants |-> FALSE]
  /\ webhookPosts = <<>>
  /\ echoDropped = {}
  /\ nNetwork = 0
  /\ nRequests = 0
  /\ pairings = <<>>
  /\ EmptyKeys
  /\ NoStreams
  /\ NoRestore

WorkerInit == IdleWorker /\ IdleBatcher /\ IdlePipeline /\ EmptyTables

WorkerNext ==
  \/ \E t \in Tenants, forceNew \in BOOLEAN : InitSession(t, forceNew)
  \/ \E c \in DOMAIN calls : AfterEnd(c)
  \/ \E c \in DOMAIN calls : MakeSocket(c)
  \/ \E h \in DOMAIN socks : ConnectionQR(h)
  \/ \E h \in DOMAIN socks : ConnectionOpen(h)
  \/ \E h \in DOMAIN socks, reason \in {"other", "loggedOut"} : NetworkClose(h, reason)
  \/ \E h \in DOMAIN socks : ConnectionClose(h)
  \/ \E h \in DOMAIN socks : CloseReconnect(h)
  \/ \E h \in DOMAIN socks : CloseLoggedOut(h)
  \/ \E h \in DOMAIN socks : CloseSetLoggedOut(h)
  \/ \E h \in DOMAIN socks : CloseClearAuth(h)
  \/ \E t \in Tenants : LogoutSession(t)
  \/ \E l \in DOMAIN logouts : LogoutDelete(l)
  \/ \E l \in DOMAIN logouts : LogoutDbStatus(l)
  \/ \E t \in Tenants, to \in {UserJid("A"), BareNumber("A")} : SendMessage(t, to)
  \/ \E s \in DOMAIN sends : SendInvoke(s)
  \/ \E s \in DOMAIN sends, ok \in BOOLEAN : SendReturn(s, ok)
  \/ \E id \in ttlTimers : TtlExpire(id)
  \/ \E h \in DOMAIN socks : \E m \in NetworkEvents \cup Echoes(Org(h)),
                                posted \in BOOLEAN : UpsertNotify(h, m, posted)
  \/ \E h \in DOMAIN socks, m \in NetworkEvents : UpsertAppend(h, <<m>>)

SpecWorker == WorkerInit /\ [][WorkerNext]_vars

\* =================================================== pairing specification
\* The worker process has just started: the maps are empty, and a tenant
\* linked in an earlier run still has its credential rows
PairingInit ==
  /\ sessions = [t \in Tenants |-> NoSock]
  /\ sessionStates = [t \in Tenants |-> "none"]
  /\ recentlySentMessageIds = {}
  /\ socks = <<>>
  /\ calls = <<>>
  /\ sends = <<>>
  /\ logouts = <<>>
  /\ ttlTimers = {}
  /\ dbStatus = [t \in Tenants |-> "disconnected"]
  /\ authRows \in [Tenants -> BOOLEAN]
  /\ webhookPosts = <<>>
  /\ echoDropped = {}
  /\ nNetwork = 0
  /\ nRequests = 0
  /\ pairings = <<>>
  /\ EmptyKeys
  /\ NoStreams
  /\ NoRestore
  /\ IdleBatcher /\ IdlePipeline /\ EmptyTables

PairingNext ==
  \/ \E t \in Tenants : RequestPairingCode(t)
  \/ \E p \in DOMAIN pairings : PairingAfterLogout(p)
  \/ \E p \in DOMAIN pairings : PairingGotSock(p)
  \/ \E p \in DOMAIN pairings : PairingTimeout(p)
  \/ \E p \in DOMAIN pairings : PairingRequest(p)
  \/ \E p \in DOMAIN pairings, ok \in BOOLEAN : PairingReturn(p, ok)
  \/ \E p \in DOMAIN pairings : PairingAfterRelogout(p)
  \/ \E p \in DOMAIN pairings : PairingRetry(p)
  \/ \E t \in Tenants : InitSession(t, FALSE)
  \/ \E c \in DOMAIN calls : MakeSocket(c)
  \/ \E h \in DOMAIN socks : WsOpen(h)
  \/ \E h \in DOMAIN socks : ConnectionQR(h)
  \/ \E h \in DOMAIN socks : ConnectionOpen(h)
  \/ \E h \in DOMAIN socks : ConnectionClose(h)
  \/ \E h \in DOMAIN socks : CloseLoggedOut(h)
  \/ \E h \in DOMAIN socks : CloseSetLoggedOut(h)
  \/ \E h \in DOMAIN socks : CloseClearAuth(h)
  \/ \E l \in DOMAIN logouts : LogoutDelete(l)
  \/ \E l \in DOMAIN logouts : LogoutDbStatus(l)

SpecPairing == PairingInit /\ [][PairingNext]_vars

\* ========================================= credential adapter specification
KeysInit == IdleWorker /\ IdleBatcher /\ IdlePipeline /\ EmptyTables

KeysNext ==
  \/ \E d \in DataToSet : KeysSet(d)
  \/ \E n \in DOMAIN keySets : KeysDeleted(n)
  \/ \E n \in DOMAIN keySets, ok \in BOOLEAN : KeysUpserted(n, ok)

SpecKeys == KeysInit /\ [][KeysNext]_vars

\* ================================================= webhook and live pipeline
MaxPosts == 2      \* webhook deliveries accepted by the web app
MaxToggles == 1    \* dashboard toggle-ai requests
MaxClock == 1      \* milliseconds Date.now() of the web app advances

\* middleware.ts:87-90: the text of a forwarded event; a caption is not read
\* A handleIncomingMessage without its try/catch: the error leaves the function
Uncaught(h, at) == [h EXCEPT !.pc = "thrown", !.at = at]

\* A handler that answers with an apology when the responder fails
CaughtWithApology(h, at) ==
  IF at = "responder"
  THEN [h EXCEPT !.pc = "saveReply", !.at = at, !.reply = "sorry",
                 !.replyId = <<"ai", clock>>]
  ELSE [h EXCEPT !.pc = "failed", !.at = at]

\* The catch block of handleIncomingMessage (part_021:228-234): the error of the
\* step at is logged and the function returns
Caught(h, at) == [h EXCEPT !.pc = "failed", !.at = at]

LiveText(m) ==
  IF m.message.kind \in {"conversation", "extendedText"} THEN m.message.text ELSE ""

\* from.split('@')[0] (part_021:51)
PhoneOf(jid) == jid.user

\* senderPn ? senderPn.split('@')[0] : null (part_021:52)
RealPhone(pn) == IF pn = NoJid THEN "" ELSE pn.user

HandlerKey(h) == <<h.orgId, PhoneOf(h.from)>>

\* The invocation the webhook makes (middleware.ts:110-118), at its first
\* await; the organization lookup (part_021:43) reads nothing the model changes
StartHandler(t, m) ==
  [orgId |-> t, from |-> m.key.remoteJid, text |-> LiveText(m),
   isFromMe |-> m.key.fromMe, name |-> m.pushName, id |-> m.key.id,
   realPhone |-> RealPhone(m.senderPn), pc |-> "findLead", lead |-> NoLead,
   found |-> "none", pause |-> FALSE, rename |-> FALSE, reply |-> "",
   replyId |-> NoId, at |-> "", trace |-> <<>>]

\* POST /api/webhooks/whatsapp (middleware.ts:65-128): an event without text
\* is skipped, otherwise the handler is started and not awaited
Webhook(t, m) ==
  /\ Len(handlers) < MaxPosts
  /\ handlers' = IF LiveText(m) = "" THEN handlers
                 ELSE Append(handlers, StartHandler(t, m))
  /\ UNCHANGED <<workerVars, queue, aiLog, sendLog, clock, nToggles, tableVars,
                 batchVars>>

\* The pause decision without the human-takeover rule
NeedsPauseNever(isFromMe, lead) == FALSE

\* part_021:87
NeedsPause(isFromMe, lead) == isFromMe /\ lead.ai_status # "paused"

\* part_021:96
NeedsRename(name, lead) == name # "" /\ lead.name # name

\* part_021:107
NeedsRealPhone(realPhone, lead) == realPhone # "" /\ lead.real_phone # realPhone

\* findByPhone answered (part_021:61-104)
FindLead(i) ==
  /\ handlers[i].pc = "findLead"
  /\ LET h == handlers[i]
         row == leads[HandlerKey(h)]
         pause == NeedsPause(h.isFromMe, row)
         rename == NeedsRename(h.name, row)
     IN handlers' =
          IF row = NoLead
          THEN [handlers EXCEPT ![i].pc = "createLead", ![i].found = "absent"]
          ELSE [handlers EXCEPT ![i].lead = row, ![i].found = row.ai_status,
                                ![i].pause = pause, ![i].rename = rename,
                                ![i].pc = IF pause \/ rename THEN "updateLead"
                                          ELSE IF NeedsRealPhone(h.realPhone, row)
                                               THEN "realPhone" ELSE "dedup"]
  /\ UNCHANGED <<workerVars, queue, aiLog, sendLog, clock, nToggles, tableVars,
                 batchVars>>

\* A lead created with paused automation
NewLeadPaused(name) == [ai_status |-> "paused", name |-> name, real_phone |-> ""]

\* LeadsRepository.createLead (part_016:124-146)
NewLead(name) == [ai_status |-> "active", name |-> name, real_phone |-> ""]

\* createLead on a table that accepts a second lead of the same address
CreateLeadUnchecked(i) ==
  /\ handlers[i].pc = "createLead"
  /\ LET h == handlers[i] IN
       /\ leads' = [leads EXCEPT ![HandlerKey(h)] = NewLead(h.name)]
       /\ handlers' = [handlers EXCEPT
            ![i].lead = NewLead(h.name),
            ![i].trace = Append(@, <<"createLead", NewLead(h.name).ai_status>>),
            ![i].pc = IF h.isFromMe THEN "pauseNew" ELSE "dedup"]
  /\ UNCHANGED <<workerVars, queue, aiLog, sendLog, clock, nToggles, messages,
                 batchVars>>

\* createLead answered (part_021:65-74); the unique index on
\* (organization_id, phone) (schema.sql:33) rejects a second lead and the
\* handler ends in its catch (part_021:228-234)
CreateLead(i) ==
  /\ handlers[i].pc = "createLead"
  /\ LET h == handlers[i] IN
       IF leads[HandlerKey(h)] = NoLead
       THEN /\ leads' = [leads EXCEPT ![HandlerKey(h)] = NewLead(h.name)]
            /\ handlers' = [handlers EXCEPT
                 ![i].lead = NewLead(h.name),
                 ![i].trace = Append(@, <<"createLead", NewLead(h.name).ai_status>>),
                 ![i].pc = IF h.isFromMe THEN "pauseNew" ELSE "dedup"]
       ELSE /\ handlers' = [handlers EXCEPT ![i] = Caught(@, "createLead")]
            /\ UNCHANGED leads
  /\ UNCHANGED <<workerVars, queue, aiLog, sendLog, clock, nToggles, messages,
                 batchVars>>

\* updateLead(lead.id, {aiStatus: 'paused'}) answered (part_021:73)
PauseNew(i) ==
  /\ handlers[i].pc = "pauseNew"
  /\ leads' = [leads EXCEPT ![HandlerKey(handlers[i])].ai_status = "paused"]
  /\ handlers' = [handlers EXCEPT ![i].lead = leads'[HandlerKey(handlers[i])],
                                  ![i].trace = Append(@, <<"pause", "paused">>),
                                  ![i].pc = "dedup"]
  /\ UNCHANGED <<workerVars, queue, aiLog, sendLog, clock, nToggles, messages,
                 batchVars>>

\* An updateLead that writes the automation status on every update
ApplyUpdatesResuming(row, pause, rename, name) ==
  [row EXCEPT !.ai_status = IF pause THEN "paused" ELSE "active",
              !.name = IF rename THEN name ELSE @]

\* LeadsRepository.updateLead with the collected updates (part_016:151-169)
ApplyUpdates(row, pause, rename, name) ==
  [row EXCEPT !.ai_status = IF pause THEN "paused" ELSE @,
              !.name = IF rename THEN name ELSE @]

\* updateLead answered (part_021:102-107)
UpdateLead(i) ==
  /\ handlers[i].pc = "updateLead"
  /\ LET h == handlers[i]
         row == ApplyUpdates(leads[HandlerKey(h)], h.pause, h.rename, h.name)
     IN /\ leads' = [leads EXCEPT ![HandlerKey(h)] = row]
        /\ handlers' = [handlers EXCEPT
             ![i].lead = row,
             ![i].trace = IF h.pause THEN Append(@, <<"pause", row.ai_status>>) ELSE @,
             ![i].pc = IF NeedsRealPhone(h.realPhone, row) THEN "realPhone"
                       ELSE "dedup"]
  /\ UNCHANGED <<workerVars, queue, aiLog, sendLog, clock, nToggles, messages,
                 batchVars>>

\* The direct update of real_phone answered (part_021:114-118)
UpdateRealPhone(i) ==
  /\ handlers[i].pc = "realPhone"
  /\ leads' = [leads EXCEPT ![HandlerKey(handlers[i])].real_phone =
                               handlers[i].realPhone]
  /\ handlers' = [handlers EXCEPT ![i].lead.real_phone = handlers[i].realPhone,
                                  ![i].pc = "dedup"]
  /\ UNCHANGED <<workerVars, queue, aiLog, sendLog, clock, nToggles, messages,
                 batchVars>>

\* MessagesRepository.findByWhatsAppId (messages.repository.ts:281-298)
FindByWhatsAppId(msgs, id) == \E j \in DOMAIN msgs : msgs[j].whatsapp_message_id = id

\* findByWhatsAppId answered (part_021:122-134)
Dedup(i) ==
  /\ handlers[i].pc = "dedup"
  /\ handlers' = [handlers EXCEPT ![i].pc =
                    IF FindByWhatsAppId(messages, handlers[i].id) THEN "duplicate"
                    ELSE "saveMessage"]
  /\ UNCHANGED <<workerVars, queue, aiLog, sendLog, clock, nToggles, tableVars,
                 batchVars>>

\* A messages table without the unique index
NoUniqueIndex(msgs, id) == FALSE

\* CREATE UNIQUE INDEX idx_messages_whatsapp_id (part_003:3): an insert of a
\* whatsapp_message_id that a row already carries is rejected
UniqueViolation(msgs, id) ==
  id # NoId /\ \E j \in DOMAIN msgs : msgs[j].whatsapp_message_id = id

\* MessagesRepository.createMessage (messages.repository.ts:134-155)
MessageRow(h, role, content, id) ==
  [organization_id |-> h.orgId, lead |-> PhoneOf(h.from), role |-> role,
   content |-> content, type |-> "text", whatsapp_message_id |-> id,
   created_at |-> Now]

\* part_021:140
RoleOf(isFromMe) == IF isFromMe THEN "assistant" ELSE "user"

\* The early exits without the test of the automation status
GateOwnOnly(isFromMe, lead) == IF isFromMe THEN "own" ELSE "history"

\* The early exits after the save (part_021:155-169), on the handler's own
\* copy of the lead
Gate(isFromMe, lead) ==
  IF isFromMe THEN "own" ELSE IF lead.ai_status = "paused" THEN "gated" ELSE "history"

\* A handler that goes on to its early exits although the insert was rejected
SaveMessageIgnoringRejection(i) ==
  /\ handlers[i].pc = "saveMessage"
  /\ LET h == handlers[i] IN
       /\ messages' = IF UniqueViolation(messages, h.id) THEN messages
                      ELSE Append(messages, MessageRow(h, RoleOf(h.isFromMe), h.text, h.id))
       /\ handlers' = [handlers EXCEPT
            ![i].trace = Append(@, <<"saveMessage", RoleOf(h.isFromMe)>>),
            ![i].pc = Gate(h.isFromMe, h.lead)]
  /\ UNCHANGED <<workerVars, queue, aiLog, sendLog, clock, nToggles, leads,
                 batchVars>>

\* createMessage answered (part_021:137-175)
SaveMessage(i) ==
  /\ handlers[i].pc = "saveMessage"
  /\ LET h == handlers[i] IN
       IF UniqueViolation(messages, h.id)
       THEN /\ handlers' = [handlers EXCEPT ![i] = Caught(@, "saveMessage")]
            /\ UNCHANGED messages
       ELSE /\ messages' = Append(messages, MessageRow(h, RoleOf(h.isFromMe), h.text, h.id))
            /\ handlers' = [handlers EXCEPT
                 ![i].trace = Append(@, <<"saveMessage", RoleOf(h.isFromMe)>>),
                 ![i].pc = Gate(h.isFromMe, h.lead)]
  /\ UNCHANGED <<workerVars, queue, aiLog, sendLog, clock, nToggles, leads,
                 batchVars>>

\* getConversationHistory answered, processMessageWithAI invoked
\* (part_021:172-200)
InvokeResponder(i) ==
  /\ handlers[i].pc = "history"
  /\ aiLog' = Append(aiLog, [handler |-> i, fromMe |-> handlers[i].isFromMe,
                             userMessage |-> handlers[i].text,
                             stored |-> leads[HandlerKey(handlers[i])].ai_status])
  /\ handlers' = [handlers EXCEPT ![i].trace = Append(@, <<"responder", "invoked">>),
                                  ![i].pc = "responder"]
  /\ UNCHANGED <<workerVars, queue, sendLog, clock, nToggles, tableVars, batchVars>>

\* `ai-${Date.now()}` (part_021:210)
ReplyId(now) == <<"ai", now>>

\* processMessageWithAI answered with a text, with an empty response, or threw
\* (part_021:193-211, 220-234)
ResponderReturn(i, outcome) ==
  /\ handlers[i].pc = "responder"
  /\ handlers' =
       IF outcome = "text"
       THEN [handlers EXCEPT ![i].reply = "reply", ![i].replyId = ReplyId(clock),
                             ![i].pc = "saveReply"]
       ELSE IF outcome = "empty" THEN [handlers EXCEPT ![i].pc = "empty"]
       ELSE [handlers EXCEPT ![i] = Caught(@, "responder")]
  /\ UNCHANGED <<workerVars, queue, aiLog, sendLog, clock, nToggles, tableVars,
                 batchVars>>

\* createMessage of the reply answered, sendMessage requested (part_021:205-214)
SaveReply(i) ==
  /\ handlers[i].pc = "saveReply"
  /\ LET h == handlers[i] IN
       IF UniqueViolation(messages, h.replyId)
       THEN /\ handlers' = [handlers EXCEPT ![i] = Caught(@, "saveReply")]
            /\ UNCHANGED <<messages, sendLog>>
       ELSE /\ messages' = Append(messages, MessageRow(h, "assistant", h.reply, h.replyId))
            /\ sendLog' = Append(sendLog, [handler |-> i, orgId |-> h.orgId,
                                           to |-> h.from, text |-> h.reply])
            /\ handlers' = [handlers EXCEPT
                 ![i].trace = @ \o << <<"saveReply", "assistant">>, <<"send", h.from.user>> >>,
                 ![i].pc = "send"]
  /\ UNCHANGED <<workerVars, queue, aiLog, clock, nToggles, leads, batchVars>>

\* The worker answered the send request, or the request failed
\* (part_021:214, baileys.ts:78-83)
SendDone(i, ok) ==
  /\ handlers[i].pc = "send"
  /\ handlers' = IF ok THEN [handlers EXCEPT ![i].pc = "done"]
                 ELSE [handlers EXCEPT ![i] = Caught(@, "send")]
  /\ UNCHANGED <<workerVars, queue, aiLog, sendLog, clock, nToggles, tableVars,
                 batchVars>>

\* A millisecond passes; the clock is read only when the responder answers
\* (part_021:210), so time is advanced only while an answer is awaited
Tick ==
  /\ clock < MaxClock
  /\ \E i \in DOMAIN handlers : handlers[i].pc = "responder"
  /\ clock' = clock + 1
  /\ UNCHANGED <<workerVars, queue, handlers, aiLog, sendLog, nToggles, tableVars,
                 batchVars>>

\* POST toggle-ai of the dashboard (part_023:65-95, part_016:174-179)
ToggleAI(k, status) ==
  /\ nToggles < MaxToggles
  /\ leads[k] # NoLead
  /\ nToggles' = nToggles + 1
  /\ leads' = [leads EXCEPT ![k].ai_status = status]
  /\ UNCHANGED <<workerVars, queue, handlers, aiLog, sendLog, clock, messages,
                 batchVars>>

\* The events the worker forwards to the webhook
Forwardable == {m \in NetworkEvents : Classify(m, {}) = "forward"}

\* The tables when the web app starts: the lead of counterpart A of tenant T1
\* may exist, with automation active or paused
KnownTables ==
  /\ \E row \in {NoLead, NewLead("Ann"),
                  [NewLead("Ann") EXCEPT !.ai_status = "paused"]} :
       leads = [k \in LeadKeys |-> IF k = <<"T1", "A">> THEN row ELSE NoLead]
  /\ messages = <<>>

PipelineInit == IdleWorker /\ IdleBatcher /\ IdlePipeline /\ KnownTables

PipelineNext ==
  \/ \E t \in Tenants, m \in Forwardable : Webhook(t, m)
  \/ \E i \in DOMAIN handlers : FindLead(i)
  \/ \E i \in DOMAIN handlers : CreateLead(i)
  \/ \E i \in DOMAIN handlers : PauseNew(i)
  \/ \E i \in DOMAIN handlers : UpdateLead(i)
  \/ \E i \in DOMAIN handlers : UpdateRealPhone(i)
  \/ \E i \in DOMAIN handlers : Dedup(i)
  \/ \E i \in DOMAIN handlers : SaveMessage(i)
  \/ \E i \in DOMAIN handlers : InvokeResponder(i)
  \/ \E i \in DOMAIN handlers, outcome \in {"text", "empty", "throw"} :
       ResponderReturn(i, outcome)
  \/ \E i \in DOMAIN handlers : SaveReply(i)
  \/ \E i \in DOMAIN handlers, ok \in BOOLEAN : SendDone(i, ok)
  \/ Tick
  \/ \E k \in LeadKeys, status \in {"active", "paused"} : ToggleAI(k, status)

SpecPipeline == PipelineInit /\ [][PipelineNext]_vars

\* ===================================================== batcher specification
HistoryLoad == 250   \* events of the large history sync

\* The i-th event of a history sync: an old text of the conversation with A,
\* every second one written on the tenant's own device
HistoryMsg(i) ==
  WAMessage(<<"hist", i>>, i % 2 = 0, UserJid("A"), Conversation("old"), "",
            TsNumber(Now - 48), NoJid)

BulkHistory == [i \in 1..HistoryLoad |-> HistoryMsg(i)]

\* What one messages.upsert of type append can carry
HistoryChunks ==
  {<<m>> : m \in NetworkEvents}
    \cup {<<m1, m2>> : m1 \in NetworkEvents, m2 \in NetworkEvents}
    \cup {BulkHistory}

\* The worker with the session of tenant T1 connected: one getOrCreateSession
\* has returned and its socket is open
ConnectedWorker ==
  /\ sessions = [t \in Tenants |-> IF t = "T1" THEN 1 ELSE NoSock]
  /\ sessionStates = [t \in Tenants |-> IF t = "T1" THEN "connected" ELSE "none"]
  /\ recentlySentMessageIds = {}
  /\ socks = << [org |-> "T1", conn |-> "open", closeEv |-> "none",
                 closePc |-> "idle", callsAtClose |-> 0, wsOpen |-> TRUE,
                 signalled |-> TRUE, registered |-> FALSE] >>
  /\ calls = << [org |-> "T1", forceNew |-> FALSE, pc |-> "done", sock |-> 1,
                 registered |-> FALSE, overlaps |-> {}, reconnectOf |-> NoSock,
                 oldSock |-> NoSock] >>
  /\ sends = <<>>
  /\ logouts = <<>>
  /\ ttlTimers = {}
  /\ dbStatus = [t \in Tenants |-> IF t = "T1" THEN "connected" ELSE "disconnected"]
  /\ authRows = [t \in Tenants |-> t = "T1"]
  /\ webhookPosts = <<>>
  /\ echoDropped = {}
  /\ nNetwork = 0
  /\ nRequests = 1
  /\ pairings = <<>>
  /\ EmptyKeys
  /\ NoStreams
  /\ NoRestore

BatchInit == ConnectedWorker /\ IdleBatcher /\ IdlePipeline /\ KnownTables

BatchNext ==
  \/ \E h \in DOMAIN socks, msgs \in HistoryChunks : UpsertAppend(h, msgs)
  \/ FlushTimer
  \/ FlushSelect
  \/ FlushInsertLead
  \/ \E ok \in BOOLEAN : FlushBulkInsert(ok)

SpecBatch == BatchInit /\ [][BatchNext]_vars

\* ======================================================= drain specification
MaxAppends == 2    \* messages.upsert events of type append
DrainLoad == 100   \* events of one part of the history sync

\* One part of the history sync: as many events as the size threshold
DrainHistory == [i \in 1..DrainLoad |-> HistoryMsg(i)]

\* The history batcher under a history sync that arrives in two parts. The
\* interval timer keeps firing (index.ts:165-168) and every request to the
\* storage layer is answered
DrainNext ==
  \/ \E h \in DOMAIN socks, msgs \in {<<EvHi>>, <<EvOperator, EvBadTime>>, DrainHistory} :
       AppendWithin(MaxAppends, h, msgs)
  \/ FlushTimer
  \/ FlushSelect
  \/ FlushInsertLead
  \/ \E ok \in BOOLEAN : FlushBulkInsert(ok)

SpecDrain ==
  /\ BatchInit /\ [][DrainNext]_vars
  /\ WF_vars(FlushTimer) /\ WF_vars(FlushSelect) /\ WF_vars(FlushInsertLead)
  /\ WF_vars(\E ok \in BOOLEAN : FlushBulkInsert(ok))

\* ===================================================== ingest specification
\* The live pipeline and the history batcher writing the same tables: the
\* worker is connected, the network replays history to it, and the webhook
\* receives the live events
IngestInit == ConnectedWorker /\ IdleBatcher /\ IdlePipeline /\ KnownTables

IngestNext ==
  \/ \E m \in {EvHi, EvOperator, EvOld} : Webhook("T1", m)
  \/ \E i \in DOMAIN handlers : FindLead(i)
  \/ \E i \in DOMAIN handlers : CreateLead(i)
  \/ \E i \in DOMAIN handlers : PauseNew(i)
  \/ \E i \in DOMAIN handlers : UpdateLead(i)
  \/ \E i \in DOMAIN handlers : UpdateRealPhone(i)
  \/ \E i \in DOMAIN handlers : Dedup(i)
  \/ \E i \in DOMAIN handlers : SaveMessage(i)
  \/ \E i \in DOMAIN handlers : InvokeResponder(i)
  \/ \E i \in DOMAIN handlers, outcome \in {"text", "throw"} :
       ResponderReturn(i, outcome)
  \/ \E i \in DOMAIN handlers : SaveReply(i)
  \/ \E i \in DOMAIN handlers, ok \in BOOLEAN : SendDone(i, ok)
  \/ \E status \in {"active", "paused"} : ToggleAI(<<"T1", "A">>, status)
  \/ \E h \in DOMAIN socks, m \in NetworkEvents : UpsertAppend(h, <<m>>)
  \/ FlushTimer
  \/ FlushSelect
  \/ FlushInsertLead
  \/ \E ok \in BOOLEAN : FlushBulkInsert(ok)

SpecIngest == IngestInit /\ [][IngestNext]_vars

\* ==================================================== restore specification
\* The worker process has started and called initAllActiveSessions
\* (index.ts:140-145)
RestoreInit ==
  /\ sessions = [t \in Tenants |-> NoSock]
  /\ sessionStates = [t \in Tenants |-> "none"]
  /\ recentlySentMessageIds = {}
  /\ socks = <<>> /\ calls = <<>> /\ sends = <<>> /\ logouts = <<>>
  /\ ttlTimers = {}
  /\ dbStatus = [t \in Tenants |-> "connected"]
  /\ authRows = [t \in Tenants |-> TRUE]
  /\ webhookPosts = <<>> /\ echoDropped = {}
  /\ nNetwork = 0 /\ nRequests = 0
  /\ pairings = <<>>
  /\ EmptyKeys /\ NoStreams
  /\ restore = [IdleRestore EXCEPT !.pc = "select"]
  /\ IdleBatcher /\ IdlePipeline /\ EmptyTables

RestoreNext ==
  \/ \E n \in 0..MaxOrgs, ok \in BOOLEAN : RestoreSelected(n, ok)
  \/ \E k \in Orgs, ok \in BOOLEAN : RestoreSettled(k, ok)
  \/ RestoreBatchDone
  \/ RestoreNextBatch

SpecRestore == RestoreInit /\ [][RestoreNext]_vars

\* ===================================================== stream specification
\* The session manager with the SSE clients that watch the tenants' status
StreamNext ==
  \/ \E t \in Tenants : SseOpen(t)
  \/ \E t \in Tenants : SseClose(t)
  \/ \E t \in Tenants, forceNew \in BOOLEAN : InitSession(t, forceNew)
  \/ \E c \in DOMAIN calls : AfterEnd(c)
  \/ \E c \in DOMAIN calls : MakeSocket(c)
  \/ \E h \in DOMAIN socks : ConnectionQR(h)
  \/ \E h \in DOMAIN socks : ConnectionOpen(h)
  \/ \E h \in DOMAIN socks, reason \in {"other", "loggedOut"} : NetworkClose(h, reason)
  \/ \E h \in DOMAIN socks : ConnectionClose(h)
  \/ \E h \in DOMAIN socks : CloseReconnect(h)
  \/ \E h \in DOMAIN socks : CloseLoggedOut(h)
  \/ \E h \in DOMAIN socks : CloseSetLoggedOut(h)
  \/ \E h \in DOMAIN socks : CloseClearAuth(h)
  \/ \E t \in Tenants : LogoutSession(t)
  \/ \E l \in DOMAIN logouts : LogoutDelete(l)
  \/ \E l \in DOMAIN logouts : LogoutDbStatus(l)

SpecStream == WorkerInit /\ [][StreamNext]_vars

\* ======================================================= send specification
\* The ids sendMessage can generate
SentIds == {MessageId(s) : s \in 1..MaxCalls}

\* The worker with the session of tenant T1 connected and nothing stored
SendInit == ConnectedWorker /\ IdleBatcher /\ IdlePipeline /\ EmptyTables

\* sendMessage, the socket it may have to build, the events the network
\* reports meanwhile, and the timers
SendNext ==
  \/ \E t \in Tenants, to \in {UserJid("A"), BareNumber("A")} : SendMessage(t, to)
  \/ \E c \in DOMAIN calls : MakeSocket(c)
  \/ \E h \in DOMAIN socks : ConnectionOpen(h)
  \/ \E s \in DOMAIN sends : SendInvoke(s)
  \/ \E s \in DOMAIN sends, ok \in BOOLEAN : SendReturn(s, ok)
  \/ \E id \in ttlTimers : TtlExpire(id)
  \/ \E h \in DOMAIN socks : \E m \in NetworkEvents \cup Echoes(Org(h)),
                                posted \in BOOLEAN : UpsertNotify(h, m, posted)

\* A timer set with setTimeout is run by the event loop once its delay has
\* passed (auth.ts:425)
SpecSend ==
  SendInit /\ [][SendNext]_vars /\ \A id \in SentIds : WF_vars(TtlExpire(id))

\* ========================================================= worker properties
\* C1: at any moment a tenant has at most one live connection handle,
\* whatever the interleaving of getOrCreateSession calls, reconnects and sends.
AtMostOneLiveHandle == \A t \in Tenants : Cardinality(LiveSocks(t)) <= 1

\* C2: two overlapping getOrCreateSession calls without forceNew for a tenant
\* with no handle registered return the same handle (only one of them builds).
OverlappingCallsShareHandle ==
  \A c1 \in DOMAIN calls : \A c2 \in DOMAIN calls :
    ( /\ c1 \in calls[c2].overlaps
      /\ ~calls[c1].forceNew /\ ~calls[c2].forceNew
      /\ ~calls[c1].registered /\ ~calls[c2].registered
      /\ calls[c1].pc = "done" /\ calls[c2].pc = "done" )
    => calls[c1].sock = calls[c2].sock

\* C4: an own-device live event whose id sendMessage registered and whose TTL
\* timer is still pending is never forwarded to the webhook; the web app acts
\* on webhook posts only, so it persists no Message and changes no lead for it.
PendingEchoNotForwarded ==
  \A i \in DOMAIN webhookPosts :
    ~(webhookPosts[i].message.key.fromMe /\ webhookPosts[i].ttlPending)

\* The C4 case: the echo of a delivered send arrived while its id was pending
\* and was dropped
EchoDroppedWhilePending ==
  /\ echoDropped # {}
  /\ \A i \in DOMAIN webhookPosts : webhookPosts[i].message.key.id \notin echoDropped
  /\ messages = <<>>

\* The staleness rule of the legacy handler (part_007:87-117): Date.now() minus
\* the event's time exceeds 24 hours
StaleWindow == 24
MessageTime(m) == IF m.messageTimestamp.shape = "absent" THEN 0 ELSE m.messageTimestamp.v
IsStale(m) == MessageTime(m) > 0 /\ Now - MessageTime(m) > StaleWindow

\* C7: a live (notify) text event with a timestamp more than 24 hours old is
\* never forwarded to the live pipeline.
StaleNeverForwarded ==
  \A i \in DOMAIN webhookPosts : ~IsStale(webhookPosts[i].message)

\* C13: the delivery id is in the pending-echo set from the moment the
\* handle's send is invoked, so an echo arriving between the invocation and the
\* TTL expiry finds it there.
EchoIdPresentFromInvocation ==
  \A s \in DOMAIN sends :
    (sends[s].pc \in {"sending", "done"} /\ MessageId(s) \in ttlTimers)
      => MessageId(s) \in recentlySentMessageIds

\* The C13 case: the echo arrived while the send was still in flight and was
\* recognised
EchoRecognisedDuringSend ==
  \E s \in DOMAIN sends :
    /\ sends[s].pc = "sending"
    /\ MessageId(s) \in echoDropped
    /\ MessageId(s) \in recentlySentMessageIds

\* A send that failed has its id removed, stays failed (the error went to the
\* caller) and the handle's send is not invoked for it again
FailedSendStaysFailed ==
  \A s \in DOMAIN sends :
    sends[s].pc = "failed"
      => /\ sends'[s] = sends[s]
         /\ MessageId(s) \notin recentlySentMessageIds'

\* C14: when the handle's send fails, sendMessage removes the delivery id from
\* the pending-echo set, passes the error to its caller and does not send again.
FailedSendForgotten ==
  /\ [](\A s \in DOMAIN sends :
          sends[s].pc = "failed" => MessageId(s) \notin recentlySentMessageIds)
  /\ [][FailedSendStaysFailed]_vars

\* The C14 case: a send failed and its id is gone before the TTL timer fired
FailedBeforeTtl ==
  \E s \in DOMAIN sends :
    /\ sends[s].pc = "failed"
    /\ MessageId(s) \in ttlTimers
    /\ MessageId(s) \notin recentlySentMessageIds

\* logoutSession l has returned and getOrCreateSession has not been invoked
\* for its tenant since logoutSession was
LoggedOutAndUntouched(l) ==
  /\ logouts[l].pc = "done"
  /\ CallsFor(logouts[l].org) = logouts[l].callsBefore

\* C15: after logoutSession returns, and until the next getOrCreateSession for
\* the tenant, the handle it found is closed, the session table has no handle
\* for the tenant, the credential store has no rows for the tenant and the
\* tenant's persisted status is logged_out.
LogoutPostcondition ==
  \A l \in DOMAIN logouts :
    LoggedOutAndUntouched(l)
      => /\ logouts[l].sock # NoSock => ~Live(logouts[l].sock)
         /\ sessions[logouts[l].org] = NoSock
         /\ ~authRows[logouts[l].org]
         /\ dbStatus[logouts[l].org] = "logged_out"

\* The getOrCreateSession invocations the close handler of h started
ReconnectCalls(h) == {c \in DOMAIN calls : calls[c].reconnectOf = h}

\* The close handler of a connection that closed without the logged-out
\* signal has finished
Reconnected(h) == socks[h].closeEv = "other" /\ socks[h].closePc = "done"

\* The close handler of such a connection takes a step
ReconnectStep(h) ==
  /\ socks[h].closeEv = "other"
  /\ socks'[h].closePc # socks[h].closePc

\* C16: a close without the logged-out signal makes the manager drop the
\* handle from the table and start a getOrCreateSession for the tenant that
\* builds a different handle; the handler never deletes the credentials.
CloseWithoutLogoutReconnects ==
  /\ [](\A h \in DOMAIN socks :
          Reconnected(h)
            => /\ sessions[Org(h)] # h
               /\ ReconnectCalls(h) # {}
               /\ \A c \in ReconnectCalls(h) :
                    /\ calls[c].org = Org(h)
                    /\ calls[c].pc = "done" => calls[c].sock \notin {NoSock, h})
  /\ [][\A h \in DOMAIN socks :
          ReconnectStep(h) => authRows' = authRows]_vars

\* The C16 case: an open connection was lost, the handler reconnected, and the
\* tenant has a new live handle with its credential rows still stored
ReconnectedWithCredentials ==
  \E h \in DOMAIN socks :
    /\ Reconnected(h)
    /\ \E c \in ReconnectCalls(h) :
         /\ calls[c].pc = "done"
         /\ sessions[Org(h)] = calls[c].sock
         /\ Live(calls[c].sock)
    /\ authRows[Org(h)]

\* The close handler of a connection closed with the logged-out signal has
\* finished and getOrCreateSession has not been invoked for the tenant since
\* the connection closed
LoggedOutForGood(h) ==
  /\ socks[h].closeEv = "loggedOut"
  /\ socks[h].closePc = "done"
  /\ CallsFor(Org(h)) = socks[h].callsAtClose

\* C17: after a close with the logged-out signal no reconnect is attempted,
\* the handle is removed, the credentials are deleted, the status is
\* logged_out, and the tenant has no handle until getOrCreateSession is
\* invoked again.
LoggedOutCloseIsFinal ==
  \A h \in DOMAIN socks :
    LoggedOutForGood(h)
      => /\ ReconnectCalls(h) = {}
         /\ sessions[Org(h)] = NoSock
         /\ LiveSocks(Org(h)) = {}
         /\ ~authRows[Org(h)]
         /\ dbStatus[Org(h)] = "logged_out"

\* C18: getSessionStatus reports not_started for every tenant that has no
\* handle in the session table.
NoHandleReportsNotStarted ==
  \A t \in Tenants : sessions[t] = NoSock => GetSessionStatus(t) = "not_started"

\* The forceNew invocations that found a registered handle
Replacing == {c \in DOMAIN calls : calls[c].forceNew /\ calls[c].oldSock # NoSock}

\* forceNew invocation c resumes after closing the old handle: the old handle
\* and the status entry leave the maps while no new handle exists yet
DeregisterStep(c) ==
  (calls[c].pc = "end" /\ calls'[c].pc # "end")
    => /\ calls'[c].pc = "load"
       /\ calls'[c].sock = NoSock
       /\ sessions'[calls[c].org] = NoSock
       /\ sessionStates'[calls[c].org] = "none"

\* forceNew invocation c returns: the table holds the handle it just built
ReturnStep(c) ==
  (calls[c].pc # "done" /\ calls'[c].pc = "done")
    => /\ calls[c].pc = "load"
       /\ calls'[c].sock \notin DOMAIN socks
       /\ calls'[c].sock \in DOMAIN socks'
       /\ sessions'[calls[c].org] = calls'[c].sock

\* C19: getOrCreateSession with forceNew closes the registered handle, removes
\* it and its status entry from the maps before the new handle is built, and on
\* return the table holds the new handle for the tenant.
ForceNewReplacesHandle ==
  /\ [](\A c \in Replacing : ~Live(calls[c].oldSock))
  /\ [][\A c \in Replacing : DeregisterStep(c) /\ ReturnStep(c)]_vars

\* The C19 case: a forceNew invocation replaced a handle that had a status
\* entry and returned with its new handle registered
HandleReplaced ==
  \E c \in Replacing :
    /\ calls[c].pc = "done"
    /\ sessions[calls[c].org] = calls[c].sock
    /\ Live(calls[c].sock)
    /\ calls[c].sock # calls[c].oldSock

\* C30: every id put in the pending-echo set has its timer pending, the
\* timer's firing leaves the id out of the set, and every id in the set is
\* eventually out of it, whether or not its echo came and whether or not the
\* send succeeded.
PendingEchoExpires ==
  /\ [](recentlySentMessageIds \subseteq ttlTimers)
  /\ [][\A id \in ttlTimers \ ttlTimers' : id \notin recentlySentMessageIds']_vars
  /\ \A id \in SentIds :
       (id \in recentlySentMessageIds) ~> (id \notin recentlySentMessageIds)

\* The C30 case: a send succeeded, its echo never came, and its timer has
\* fired and removed the id
ExpiredWithoutEcho ==
  \E s \in DOMAIN sends :
    /\ sends[s].pc = "done"
    /\ MessageId(s) \notin echoDropped
    /\ MessageId(s) \notin ttlTimers
    /\ MessageId(s) \notin recentlySentMessageIds

\* ====================================================== pairing properties
\* The pairing-code request of invocation p has been handed to the socket
Issued(p) == pairings[p].pc \in {"requested", "done"} \/ pairings[p].error = "request"

\* C20: requestPairingCode hands the request to the socket only after that
\* socket has signalled a QR or an open connection, and when the timer fires
\* first it fails with the connection-timeout error and issues nothing.
PairingWaitsForSignal ==
  \A p \in DOMAIN pairings :
    /\ Issued(p) => pairings[p].signalAtIssue
    /\ pairings[p].how = "timeout"
         => /\ pairings[p].pc = "failed"
            /\ pairings[p].error = "Connection/QR timeout - Socket not ready"

\* The errors of an attempt: the wait timed out or the socket rejected the
\* request
AttemptErrors == {"Connection/QR timeout - Socket not ready", "request"}

\* C21: a rejected or timed-out pairing attempt is retried, and the failure
\* reaches the caller only after the third attempt has failed.
FailureOnlyAfterThirdAttempt ==
  \A p \in DOMAIN pairings :
    (pairings[p].pc = "failed" /\ pairings[p].error \in AttemptErrors)
      => pairings[p].attempts = 3

\* C22: a call that found registered credentials forces one logout, retries
\* once, and never makes a second logoutSession for the same call.
AtMostOneForcedLogout ==
  \A p \in DOMAIN pairings : pairings[p].forcedLogouts <= 1

\* ====================================================== adapter properties
\* No keys.set is in progress
KeysQuiet == \A n \in DOMAIN keySets : keySets[n].pc \in {"done", "doneLogged"}

\* C23: after set(key, null) the key is absent from get results and from
\* storage, and after set(key, v) a get of the key returns v.
SetThenGet ==
  KeysQuiet
    => \A type \in KeyTypes, id \in KeyIds :
         LET k == KeyOf(type, id)
             got == KeysGet(type, {id})
         IN /\ keyLast[k] = Null => (id \notin DOMAIN got /\ keyRows[k] = Absent)
            /\ keyLast[k] \in KeyValues => (id \in DOMAIN got /\ got[id] = keyLast[k])

\* ======================================================= pipeline properties
RowsWithId(id) == {j \in DOMAIN messages : messages[j].whatsapp_message_id = id}
Finished(h) == h.pc \in {"duplicate", "own", "gated", "empty", "done", "failed"}
AiCalls(i) == {k \in DOMAIN aiLog : aiLog[k].handler = i}
SendCalls(i) == {k \in DOMAIN sendLog : sendLog[k].handler = i}
IsPrefix(s, t) == Len(s) <= Len(t) /\ s = SubSeq(t, 1, Len(s))

\* C3: an event id never has more than one persisted Message, and once a
\* delivery of it has been handled (its handler did not stop at the creation
\* of the lead) it has exactly one, whether the deliveries of the id were
\* handled one after the other or concurrently.
OneMessagePerEventId ==
  \A i \in DOMAIN handlers :
    /\ Cardinality(RowsWithId(handlers[i].id)) <= 1
    /\ (Finished(handlers[i]) /\ handlers[i].at # "createLead")
         => Cardinality(RowsWithId(handlers[i].id)) = 1

\* The C3 case: two deliveries of one event handled concurrently, the second
\* insert rejected by the unique index, one Message stored
ConcurrentDuplicateStoredOnce ==
  \E i \in DOMAIN handlers : \E j \in DOMAIN handlers :
    /\ i # j
    /\ handlers[i].id = handlers[j].id
    /\ handlers[i].pc = "failed" /\ handlers[i].at = "saveMessage"
    /\ Finished(handlers[j]) /\ handlers[j].pc # "failed"
    /\ Cardinality(RowsWithId(handlers[i].id)) = 1

\* A counterpart message handled on a lead that the handler read as paused has
\* no responder call and no send
PausedLeadGetsNoReply ==
  \A i \in DOMAIN handlers :
    (~handlers[i].isFromMe /\ handlers[i].lead.ai_status = "paused")
      => AiCalls(i) = {} /\ SendCalls(i) = {}

\* The step in which an operator message that found the lead active finishes
\* its update leaves the stored lead paused
OperatorPauseStep ==
  \A i \in DOMAIN handlers :
    ( /\ handlers[i].isFromMe /\ handlers[i].found = "active"
      /\ handlers[i].pc = "updateLead" /\ handlers'[i].pc # "updateLead" )
    => leads'[HandlerKey(handlers[i])].ai_status = "paused"

\* An operator message that found the lead active does update it
OperatorAlwaysUpdates ==
  \A i \in DOMAIN handlers :
    (handlers[i].isFromMe /\ handlers[i].found = "active")
      => handlers[i].pc = "updateLead" \/ handlers[i].pause

\* C5: an operator message (own-device, not an echo) on a lead with automation
\* active sets the lead to paused, and a counterpart message handled after
\* that on the paused lead (its handler read the lead as paused) triggers no
\* responder call and no send.
HumanTakeover ==
  /\ [](PausedLeadGetsNoReply /\ OperatorAlwaysUpdates)
  /\ [][OperatorPauseStep]_vars

\* The C5 case: the operator paused an active lead, the counterpart's later
\* message was stored and got no reply
TakeoverThenSilent ==
  \E i \in DOMAIN handlers : \E j \in DOMAIN handlers :
    /\ i < j
    /\ handlers[i].isFromMe /\ handlers[i].found = "active" /\ handlers[i].pc = "own"
    /\ ~handlers[j].isFromMe /\ handlers[j].found = "paused" /\ handlers[j].pc = "gated"
    /\ HandlerKey(handlers[i]) = HandlerKey(handlers[j])
    /\ leads[HandlerKey(handlers[i])].ai_status = "paused"
    /\ nToggles = 0 /\ aiLog = <<>> /\ sendLog = <<>>

\* C6: whenever the responder is invoked, the event is the counterpart's and
\* the lead's automation status in storage is active at that moment.
ResponderOnlyWhenActive ==
  \A k \in DOMAIN aiLog : ~aiLog[k].fromMe /\ aiLog[k].stored = "active"

\* The effects of handling the first message of a new counterpart, in order
FullTrace(h) ==
  << <<"createLead", "active">>, <<"saveMessage", "user">>, <<"responder", "invoked">>,
     <<"saveReply", "assistant">>, <<"send", PhoneOf(h.from)>> >>

\* C9: a counterpart text from an address without a lead produces, in this
\* order, one new lead with automation active, one Message of role user with
\* the text, one responder invocation and, when the responder answers with a
\* text, one Message of role assistant and one send to that address.
NewCounterpartFlow ==
  \A i \in DOMAIN handlers :
    LET h == handlers[i] IN
      (~h.isFromMe /\ h.found = "absent" /\ h.trace # <<>>)
      => /\ IsPrefix(h.trace, FullTrace(h))
         /\ Len(h.trace) >= 2 =>
              /\ Cardinality(RowsWithId(h.id)) = 1
              /\ \A j \in RowsWithId(h.id) :
                   messages[j].role = "user" /\ messages[j].content = h.text
         /\ Cardinality(AiCalls(i)) = (IF Len(h.trace) >= 3 THEN 1 ELSE 0)
         /\ Cardinality(SendCalls(i)) = (IF Len(h.trace) = 5 THEN 1 ELSE 0)
         /\ (h.reply # "" /\ h.pc # "saveReply" /\ h.at # "saveReply")
              => h.trace = FullTrace(h)
         /\ h.reply = "" => Len(h.trace) <= 3
         /\ Len(h.trace) = 5 =>
              /\ \A j \in RowsWithId(h.replyId) : messages[j].role = "assistant"
              /\ RowsWithId(h.replyId) # {}
              /\ \A k \in SendCalls(i) : sendLog[k].to = h.from

\* The C9 case: "Hi" from the unknown address A, handled alone to the end
HiAnswered ==
  /\ Len(handlers) = 1
  /\ handlers[1].text = "Hi" /\ handlers[1].found = "absent"
  /\ handlers[1].pc = "done" /\ handlers[1].trace = FullTrace(handlers[1])
  /\ leads[HandlerKey(handlers[1])] = NewLead(handlers[1].name)
  /\ Len(messages) = 2
  /\ messages[1].role = "user" /\ messages[1].content = "Hi"
  /\ messages[2].role = "assistant"
  /\ Len(aiLog) = 1 /\ Len(sendLog) = 1 /\ sendLog[1].to = UserJid("A")

\* C10: an operator message with text X on an existing lead with automation
\* active sets the lead to paused, persists exactly one Message of role
\* assistant with content X, and makes no responder call and no send.
OperatorMessageOnActiveLead ==
  \A i \in DOMAIN handlers :
    LET h == handlers[i] IN
      (h.isFromMe /\ h.found = "active" /\ Finished(h))
      => /\ h.trace # <<>> /\ h.trace[1] = <<"pause", "paused">>
         /\ Cardinality(RowsWithId(h.id)) = 1
         /\ \A j \in RowsWithId(h.id) :
              messages[j].role = "assistant" /\ messages[j].content = h.text
         /\ AiCalls(i) = {} /\ SendCalls(i) = {}

\* The C10 case: the operator's message handled alone on the active lead
OperatorTookOver ==
  /\ Len(handlers) = 1
  /\ handlers[1].isFromMe /\ handlers[1].found = "active" /\ handlers[1].pc = "own"
  /\ leads[HandlerKey(handlers[1])].ai_status = "paused"
  /\ Len(messages) = 1
  /\ messages[1].role = "assistant" /\ messages[1].content = "I'll handle this"
  /\ aiLog = <<>> /\ sendLog = <<>>

\* The sends made while handling deliveries of the event with this id
RepliesTo(id) == {k \in DOMAIN sendLog : handlers[sendLog[k].handler].id = id}

\* C11: for one counterpart event id at most one automated reply is sent, also
\* when the event is delivered more than once and the deliveries are handled
\* concurrently.
AtMostOneReplyPerEvent ==
  \A i \in DOMAIN handlers : Cardinality(RepliesTo(handlers[i].id)) <= 1

\* The C11 case: two deliveries of one counterpart event handled concurrently,
\* both past the duplicate lookup, one reply sent
ConcurrentDuplicateRepliedOnce ==
  \E i \in DOMAIN handlers : \E j \in DOMAIN handlers :
    /\ i # j
    /\ handlers[i].id = handlers[j].id
    /\ ~handlers[i].isFromMe
    /\ handlers[i].pc = "failed" /\ handlers[i].at = "saveMessage"
    /\ handlers[j].pc = "done"
    /\ Cardinality(RepliesTo(handlers[i].id)) = 1

\* The steps of handleIncomingMessage that can fail: storage, the responder
\* and the send
FailureSites == {"createLead", "saveMessage", "responder", "saveReply", "send"}

UserRows(i) == {j \in RowsWithId(handlers[i].id) : messages[j].role = "user"}

\* C25: when the responder fails for a counterpart event, the Message stored
\* for the event stays, no assistant Message is stored and nothing is sent.
ResponderFailureKeepsMessage ==
  \A i \in DOMAIN handlers :
    handlers[i].at = "responder"
      => /\ handlers[i].pc = "failed"
         /\ UserRows(i) # {}
         /\ handlers[i].replyId = NoId
         /\ \A j \in DOMAIN messages : messages[j].whatsapp_message_id[1] # "ai"
              \/ \E k \in DOMAIN handlers : k # i /\ handlers[k].replyId =
                                                   messages[j].whatsapp_message_id
         /\ SendCalls(i) = {}

\* The C25 case: the responder failed after the counterpart's Message was
\* stored
ResponderFailed ==
  \E i \in DOMAIN handlers :
    /\ handlers[i].at = "responder"
    /\ ~handlers[i].isFromMe
    /\ UserRows(i) # {}
    /\ AiCalls(i) # {}


\* C12: every live counterpart text event that has been handled has a persisted
\* Message, also when two events of the same new counterpart are handled
\* concurrently and both try to create the lead.
EveryCounterpartEventPersisted ==
  (\A j \in DOMAIN handlers : Finished(handlers[j]))
    => \A i \in DOMAIN handlers :
         ~handlers[i].isFromMe => RowsWithId(handlers[i].id) # {}

\* The place in the messages table of the Message stored for the event of
\* invocation i
RowOf(i) == CHOOSE j \in RowsWithId(handlers[i].id) : TRUE

\* C26: events of one tenant are persisted in receipt order: when the webhook
\* received the event of invocation i before that of invocation j and both
\* have a Message, i's Message was stored first.
ReceiptOrderPreserved ==
  \A i, j \in DOMAIN handlers :
    (/\ i < j
     /\ handlers[i].orgId = handlers[j].orgId
     /\ handlers[i].id # handlers[j].id
     /\ RowsWithId(handlers[i].id) # {}
     /\ RowsWithId(handlers[j].id) # {})
      => RowOf(i) < RowOf(j)

\* Handler i created its lead
CreatedLead(i) ==
  \E k \in DOMAIN handlers[i].trace : handlers[i].trace[k][1] = "createLead"

\* Another handler of the same lead took an operator message
OperatorOnSameLead(i) ==
  \E j \in DOMAIN handlers :
    /\ j # i
    /\ HandlerKey(handlers[j]) = HandlerKey(handlers[i])
    /\ handlers[j].isFromMe

\* C28: while no dashboard toggle has touched it, a lead created by the live
\* pipeline is stored paused when the event that created it was an operator
\* message, and stored active when it was a counterpart message and no
\* operator message has taken the lead over since.
NewLeadStatusFollowsTrigger ==
  \A i \in DOMAIN handlers :
    (CreatedLead(i) /\ nToggles = 0) =>
      IF handlers[i].isFromMe
      THEN leads[HandlerKey(handlers[i])].ai_status = "paused"
      ELSE leads[HandlerKey(handlers[i])].ai_status = "active"
             \/ OperatorOnSameLead(i)

\* C39: handling an event whose id already has a stored message of the tenant
\* changes nothing: when findByPhone answers for such an event, the handler
\* issues no write to the lead (no createLead, no updateLead, no real_phone
\* update) and goes on to the duplicate check.
DuplicateChangesNothing ==
  [][\A i \in DOMAIN handlers :
       (/\ handlers[i].pc = "findLead"
        /\ handlers'[i].pc # "findLead"
        /\ \E j \in DOMAIN messages :
             /\ messages[j].whatsapp_message_id = handlers[i].id
             /\ messages[j].organization_id = handlers[i].orgId)
         => handlers'[i].pc \notin {"createLead", "updateLead", "realPhone"}]_vars

\* C40: a connection-close event handled for a handle that is no longer the one
\* registered for its tenant leaves the tenant's registered handle, its status
\* entry and its credentials as they are: every step of the close handler of a
\* handle h, taken while another handle is registered for the tenant of h,
\* changes none of sessions, sessionStates and authRows for that tenant.
ReplacedHandleCloseHarmless ==
  [][\A h \in DOMAIN socks :
       (/\ h \in DOMAIN socks'
        /\ socks'[h].closePc # socks[h].closePc
        /\ sessions[Org(h)] # NoSock
        /\ sessions[Org(h)] # h)
         => /\ sessions'[Org(h)] = sessions[Org(h)]
            /\ sessionStates'[Org(h)] = sessionStates[Org(h)]
            /\ authRows'[Org(h)] = authRows[Org(h)]]_vars

RECURSIVE TotalTaken(_)
TotalTaken(log) == IF log = <<>> THEN 0 ELSE Head(log).took + TotalTaken(Tail(log))

\* The flush cycles that empty a buffer of n events: full batches, then the rest,
\* each with one bulk insert
RECURSIVE ExpectedFlushes(_)
ExpectedFlushes(n) ==
  IF n = 0 THEN <<>>
  ELSE IF n <= batchSize THEN << [took |-> n, inserts |-> 1] >>
  ELSE << [took |-> batchSize, inserts |-> 1] >> \o ExpectedFlushes(n - batchSize)

BatcherIdle == queue = <<>> /\ ~processing

\* C8: events buffered by one history sync, with no further arrivals, are
\* drained by flush cycles of the batch size and then the rest, each with a
\* single bulk insert: 250 events with batch size 100 take exactly three
\* cycles of 100, 100 and 50.
BufferDrainedInBatches ==
  (nNetwork = 1 /\ BatcherIdle) => flushLog = ExpectedFlushes(TotalTaken(flushLog))

\* The C8 case: the 250 events have been drained in three cycles
Drained250 ==
  /\ nNetwork = 1 /\ BatcherIdle
  /\ TotalTaken(flushLog) = 250
  /\ Len(flushLog) = 3
  /\ flushLog[1].took = 100 /\ flushLog[2].took = 100 /\ flushLog[3].took = 50
  /\ \A k \in 1..3 : flushLog[k].inserts = 1

\* C34: the events of a messages.upsert of type append are only queued to the
\* history batcher: none is posted to the webhook or handled by the live
\* pipeline, none causes a responder call or a send, and no existing lead is
\* changed.
AppendOnlyQueues ==
  /\ [](webhookPosts = <<>> /\ handlers = <<>> /\ aiLog = <<>> /\ sendLog = <<>>)
  /\ [][\A k \in LeadKeys : leads[k] # NoLead => leads'[k] = leads[k]]_vars

\* The C34 case: a replayed operator message of a lead stored active was
\* flushed and inserted, and the lead is still active
ReplayedOperatorMessageStored ==
  /\ leads[<<"T1", "A">>].ai_status = "active"
  /\ \E k \in DOMAIN messages :
       messages[k].role = "assistant" /\ messages[k].lead = "A"
  /\ flushPc = "idle" /\ queue = <<>>

\* C35: with the timer firing and the storage answering, every event queued
\* in the history batcher is eventually taken from the queue by a flush.
QueueDrains == (queue # <<>>) ~> (queue = <<>>)

\* The C35 case: events were queued while a flush was running, and the flush
\* their reaching the threshold asked for was skipped
ThresholdFlushSkipped ==
  /\ processing
  /\ nNetwork = MaxAppends
  /\ Len(flushLog) = 1
  /\ Len(queue) >= batchSize

\* Sequence a is the end of sequence b
IsSuffix(a, b) ==
  Len(a) <= Len(b) /\ a = SubSeq(b, Len(b) - Len(a) + 1, Len(b))

\* C36: a batch whose bulk insert fails or whose flush throws is not put back:
\* without an arrival the queue only loses events at its head, so what is
\* still queued keeps its place and order, and a flush that has ended, however
\* it ended, leaves the in-progress flag clear for the next one.
FailedBatchNotRequeued ==
  /\ [][nNetwork' = nNetwork => IsSuffix(queue', queue)]_vars
  /\ [][(flushPc # "idle" /\ flushPc' = "idle")
          => (queue' = queue /\ ~processing' /\ messagesToInsert' = <<>>)]_vars

\* The C36 case: the first flush's bulk insert failed, and the flush of the
\* events that arrived later has reached its bulk insert
FlushAfterFailedInsert ==
  /\ Len(flushLog) = 2
  /\ flushLog[1].inserts = 1 /\ messages = <<>>
  /\ flushPc = "bulk"

\* Flush k of the log has ended
FlushEnded(k) == k < Len(flushLog) \/ flushPc = "idle"

\* C37: a stored message carries a usable creation time, and an event with an
\* unusable timestamp does not keep the other events of its batch from being
\* inserted: every flush that has ended issued its bulk insert (every batch
\* here holds an event with a text and a usable timestamp).
BadTimestampIsolated ==
  /\ \A k \in DOMAIN messages : messages[k].created_at # NaN
  /\ \A k \in DOMAIN flushLog : FlushEnded(k) => flushLog[k].inserts = 1

\* A flush takes a batch in this step
FlushStarts == Len(flushLog') > Len(flushLog)

BroadcastDropped ==
  /\ \A k \in DOMAIN webhookPosts :
       ~IsJidBroadcast(webhookPosts[k].message.key.remoteJid)
  /\ \A k \in DOMAIN queue : ~IsJidBroadcast(queue[k].message.key.remoteJid)
  /\ \A k \in DOMAIN batch : ~IsJidBroadcast(batch[k].message.key.remoteJid)
  /\ \A t \in Tenants : leads[<<t, StatusJid.user>>] = NoLead
  /\ \A k \in DOMAIN messages : messages[k].lead # StatusJid.user

\* =========================================================== stream properties
\* C31: every change of a tenant's in-memory status is published, so what the
\* tenant's SSE client was last sent is what getSessionStatus returns.
StreamFollowsStatus ==
  \A t \in Tenants : sseSent[t] # NoStream => sseSent[t] = GetSessionStatus(t)

\* =========================================================== ingest properties
\* C32: at most one lead exists per (tenant, address): a lead is inserted,
\* by the live pipeline or by a flush of the history batcher, only for an
\* address that has no lead, and a lead once stored is never removed.
OneLeadPerAddress ==
  [][/\ \A i \in DOMAIN handlers :
          (handlers[i].pc = "createLead"
             /\ handlers'[i].pc \notin {"createLead", "failed"})
            => leads[HandlerKey(handlers[i])] = NoLead
     /\ (flushPc = "insert" /\ leadCache' # leadCache)
          => leads[LeadKeyOf(Head(batch))] = NoLead
     /\ \A k \in LeadKeys : leads[k] # NoLead => leads'[k] # NoLead]_vars

\* The C32 case: the only live handler and a flush both looked up the lead of
\* a new counterpart, the flush inserted it and the handler's insert was
\* rejected
LiveInsertLostToFlush ==
  /\ Len(handlers) = 1
  /\ handlers[1].pc = "failed" /\ handlers[1].at = "createLead"
  /\ HandlerKey(handlers[1]) \in leadCache
  /\ leads[HandlerKey(handlers[1])] # NoLead

\* ========================================================== restore properties
\* C33: initAllActiveSessions runs at most 5 restorations at a time, and when
\* it ends after listing the connected tenants every one of them has been
\* attempted, whichever of the attempts failed.
RestoresAllInBatches ==
  /\ Cardinality({k \in Orgs : restore.st[k] = "running"}) <= BATCH_SIZE
  /\ (restore.pc = "done" /\ restore.listed) =>
       \A k \in 1..restore.orgs : restore.st[k] \in {"restored", "failed"}
  /\ \A k \in Orgs : k > restore.orgs => restore.st[k] = "waiting"

\* The C33 case: seven tenants, the first restoration failed, and the run
\* ended with the seventh restored
RestoredAfterFailure ==
  /\ restore.pc = "done" /\ restore.orgs = MaxOrgs
  /\ restore.st[1] = "failed"
  /\ restore.st[MaxOrgs] = "restored"

====
